---- MODULE Spec2Model ----
(***************************************************************************)
(* Model of the decision engine of the anti-debug framework                *)
(* (src/src/engine/policy.rs) and of the entrypoint that drives it         *)
(* (src/src/main.rs).                                                      *)
(*                                                                         *)
(* Numbers.  The engine's score and per-source totals are u32.  TLC's      *)
(* integers are 32-bit signed, so u32::MAX itself cannot be written; the   *)
(* model keeps the width as the definition MaxU32 and does all arithmetic  *)
(* relative to it (saturating add = min(a+b, MaxU32), wrapping add =       *)
(* (a+b) % (MaxU32+1)).                                                     *)
(* confidence and the damping factor are f64.  The model writes them in    *)
(* hundredths (One = 100 stands for 1.0).  `(x as f64 * c) as u32`         *)
(* truncates toward zero, saturates, and maps negatives to 0: AsU32 of the *)
(* integer quotient.  The engine's callers in Spec draw only dyadic values *)
(* (0, 0.5, 0.75, 1.0, 1.5), for which the f64 product is exact; where the *)
(* f64 product of the values main uses differs from the quotient, the      *)
(* difference is tabulated (ShortOfSeventy).                               *)
(*                                                                         *)
(* The process around the engine: the statics of signal_compat.rs, the     *)
(* TracerPid line of /proc/self/status, the signal dispositions, and the   *)
(* detectors as far as they touch these.                                   *)
(***************************************************************************)
EXTENDS Integers, Sequences, FiniteSets, TLC

VARIABLES
    engine,      \* the DecisionEngine: score, history, contradictions, source_weights
    panicked,    \* the process has panicked (arithmetic overflow with overflow checks on)
    profile,     \* the build profile: "debug" (overflow checks on) or "release"
    calls,       \* log of the report calls as the callers made them
    damps,       \* number of adjustments applied with 0 < factor < 1
    op,          \* the last operation and its arguments
    pre,         \* the engine before the last operation
    nops,        \* number of mutating calls made
    engineB,     \* a second engine, fed the same reports in another order
    panickedB,
    todoA,       \* the reports for `engine`, in order
    todoB,       \* the same reports permuted, for `engineB`
    ppc,         \* position of the two-engine run
    verdicts,    \* the verdicts of the two engines
    pc,          \* position of main()
    env_state,   \* EnvironmentState::detect() as main holds it
    verdict,     \* main's `verdict`
    exit_code,   \* the argument of the process's exit, -1 while it runs
    payload_ran, \* payload() has been called
    anomalies,   \* the detectors whose probes measured an anomaly in this run
    trace,       \* the statements of main() executed so far, in order
    TracerPid,   \* the TracerPid line of /proc/self/status (0: none or unreadable)
    ANTIDEBUG_GDB_COMPATIBLE,  \* the environment variable is set
    TRACER_CHECKED,            \* signal_compat.rs statics
    CACHED_TRACER_PID,
    GDB_COMPAT_MODE,
    sigactions,  \* the disposition of each signal the detectors touch
    proc_reads,  \* number of times get_tracer_pid read /proc/self/status
    samples,     \* a vector of cycle samples handed to from_samples
    stats,       \* the statistics from_samples returned
    region,      \* a scanned memory region, as runs of equal bytes
    dpc,               \* position inside a detector that is followed step by step
    DR_ACCESS_FAULTED, \* hardware_bp.rs static, set by sigsegv_handler
    SIGNAL_ORDER,      \* record_replay.rs statics of check_signal_determinism
    SIGNAL_COUNT,
    pending,           \* the signals sent to the process and not yet delivered
    handlers           \* the signal handlers running, innermost last

engineVars == <<engine, panicked, profile, calls, damps, op, pre, nops>>

permVars == <<engineB, panickedB, todoA, todoB, ppc, verdicts>>

mainVars ==
    <<pc, env_state, verdict, exit_code, payload_ran, anomalies, trace>>

processVars == <<TracerPid, ANTIDEBUG_GDB_COMPATIBLE, TRACER_CHECKED,
                 CACHED_TRACER_PID, GDB_COMPAT_MODE, sigactions, proc_reads>>

inputVars == <<samples, stats, region>>

signalVars == <<dpc, DR_ACCESS_FAULTED, SIGNAL_ORDER, SIGNAL_COUNT, pending,
                handlers>>

vars == <<engineVars, permVars, mainVars, processVars, inputVars, signalVars>>

---------------------------------------------------------------------------
(* Bounds of the model *)

MaxU32 == 65535

MaxOps == 3

MaxReports == 2

PermLen == 3

---------------------------------------------------------------------------
(* Types of policy.rs *)

One == 100

DetectionSource ==
    {"Timing", "Int3", "TrapFlag", "Ptrace", "HardwareBreakpoint", "Jitter",
     "RecordReplay", "EbpfComparison", "Correlation"}

Verdict == {"Clean", "Suspicious", "Instrumented", "Deceptive"}

ContradictionBonus == 30

TimingThreshold == 40

DeceptiveThreshold == 90

InstrumentedThreshold == 50

SuspiciousThreshold == 20

(* `x as u32` for a truncated f64 x: saturating, negative -> 0 *)
AsU32(x) == IF x < 0 THEN 0 ELSE IF x > MaxU32 THEN MaxU32 ELSE x

saturating_add(a, b) == IF a + b > MaxU32 THEN MaxU32 ELSE a + b

wrapping_add(a, b) == (a + b) % (MaxU32 + 1)

Overflows(a, b) == a + b > MaxU32

(* (weight as f64 * confidence) as u32 *)
adjusted_weight(weight, confidence) == AsU32((weight * confidence) \div One)

(* DecisionEngine::new *)
new ==
    [score |-> 0, history |-> <<>>, contradictions |-> <<>>,
     source_weights |-> <<>>]

Evidence(source, weight, confidence) ==
    [source |-> source, weight |-> weight, confidence |-> confidence]

Contradiction(source_a, source_b) ==
    [source_a |-> source_a, source_b |-> source_b]

(* An operation's outcome: the engine it leaves and whether it panicked *)
Outcome(e, p) == [engine |-> e, panicked |-> p]

get_source_weight(e, source) ==
    IF source \in DOMAIN e.source_weights THEN e.source_weights[source] ELSE 0

(* mutant: any evidence of the source counts, whatever its weight *)
has_detection_any_weight(e, source) ==
    \E i \in 1..Len(e.history) : e.history[i].source = source

(* mutant: only the most recent evidence is looked at *)
has_detection_last_only(e, source) ==
    /\ e.history # <<>>
    /\ e.history[Len(e.history)].source = source
    /\ e.history[Len(e.history)].weight > 0

has_detection(e, source) ==
    \E i \in 1..Len(e.history) :
        e.history[i].source = source /\ e.history[i].weight > 0

(* `*map.entry(source).or_insert(0) += w`: the entry exists afterwards *)
entry_add(sw, source, total) ==
    [s \in (DOMAIN sw) \cup {source} |-> IF s = source THEN total ELSE sw[s]]

(* mutant: a report whose effective weight is 0 is dropped *)
report_with_confidence_drops_zero(e, prof, source, weight, confidence) ==
    LET adj == adjusted_weight(weight, confidence)
        old == get_source_weight(e, source)
    IN  IF adj = 0 THEN Outcome(e, FALSE)
        ELSE IF Overflows(old, adj) /\ prof = "debug"
        THEN Outcome([e EXCEPT !.score = saturating_add(e.score, adj)], TRUE)
        ELSE Outcome(
               [e EXCEPT
                  !.score = saturating_add(e.score, adj),
                  !.source_weights = entry_add(e.source_weights, source,
                                               wrapping_add(old, adj)),
                  !.history = Append(e.history,
                                     Evidence(source, adj, confidence))],
               FALSE)

(* report_with_confidence: the score is updated first (saturating), then   *)
(* the per-source total with a plain `+=`, which on overflow panics when   *)
(* overflow checks are on (debug profile) and wraps otherwise (release).   *)
report_with_confidence(e, prof, source, weight, confidence) ==
    LET adj == adjusted_weight(weight, confidence)
        e1  == [e EXCEPT !.score = saturating_add(e.score, adj)]
        old == get_source_weight(e, source)
    IN  IF Overflows(old, adj) /\ prof = "debug"
        THEN Outcome(e1, TRUE)
        ELSE Outcome(
               [e1 EXCEPT
                  !.source_weights = entry_add(e.source_weights, source,
                                               wrapping_add(old, adj)),
                  !.history = Append(e.history,
                                     Evidence(source, adj, confidence))],
               FALSE)

report(e, prof, source, weight) ==
    report_with_confidence(e, prof, source, weight, One)

(* mutant: the contradiction is logged but the score is left alone *)
record_contradiction_no_bonus(e, source_a, source_b) ==
    [e EXCEPT
       !.contradictions = Append(e.contradictions,
                                 Contradiction(source_a, source_b))]

record_contradiction(e, source_a, source_b) ==
    [e EXCEPT
       !.contradictions = Append(e.contradictions,
                                 Contradiction(source_a, source_b)),
       !.score = saturating_add(e.score, ContradictionBonus)]

analyze_contradictions(e, prof) ==
    LET has_timing == has_detection(e, "Timing") \/ has_detection(e, "Jitter")
        has_hw_bp  == has_detection(e, "HardwareBreakpoint")
        has_ptrace == has_detection(e, "Ptrace")
        tw == get_source_weight(e, "Timing")
        jw == get_source_weight(e, "Jitter")
    IN  IF has_timing /\ ~has_hw_bp /\ ~has_ptrace
        THEN IF Overflows(tw, jw) /\ prof = "debug"
             THEN Outcome(e, TRUE)
             ELSE IF wrapping_add(tw, jw) > TimingThreshold
                  THEN Outcome(record_contradiction(e, "Timing", "Ptrace"),
                               FALSE)
                  ELSE Outcome(e, FALSE)
        ELSE Outcome(e, FALSE)

(* mutant: the score thresholds are consulted before the contradictions *)
decide_score_first(e) ==
    IF e.score >= DeceptiveThreshold THEN "Deceptive"
    ELSE IF e.score >= InstrumentedThreshold THEN "Instrumented"
    ELSE IF e.score >= SuspiciousThreshold THEN "Suspicious"
    ELSE IF e.contradictions # <<>> THEN "Deceptive"
    ELSE "Clean"

(* mutant: the thresholds are exclusive *)
decide_exclusive(e) ==
    IF e.contradictions # <<>> THEN "Deceptive"
    ELSE IF e.score > DeceptiveThreshold THEN "Deceptive"
    ELSE IF e.score > InstrumentedThreshold THEN "Instrumented"
    ELSE IF e.score > SuspiciousThreshold THEN "Suspicious"
    ELSE "Clean"

decide(e) ==
    IF e.contradictions # <<>> THEN "Deceptive"
    ELSE IF e.score >= DeceptiveThreshold THEN "Deceptive"
    ELSE IF e.score >= InstrumentedThreshold THEN "Instrumented"
    ELSE IF e.score >= SuspiciousThreshold THEN "Suspicious"
    ELSE "Clean"

get_score(e) == e.score

(* 0.7 is not a binary fraction: the f64 nearest to it lies below it, and  *)
(* at these scores (of those up to 1000) the f64 product score * 0.7       *)
(* rounds to a value below the whole number that the exact product is, so  *)
(* that the cast truncates to one less.  The other factors the environment *)
(* model produces (0.9, 0.81, 0.63, 0.5, 0.45) have no such score up to    *)
(* 1000.                                                                   *)
ShortOfSeventy ==
    {90, 170, 180, 330, 340, 350, 360, 650, 660, 670, 680, 690, 700, 710,
     720, 730}

(* (score as f64 * factor) as u32 *)
damped(score, factor) ==
    AsU32((score * factor) \div One)
        - (IF factor = 70 /\ score \in ShortOfSeventy THEN 1 ELSE 0)

(* mutant: the lower bound on the factor is not checked *)
apply_environmental_adjustment_no_lower_bound(e, factor) ==
    IF factor < One
    THEN [e EXCEPT !.score = damped(e.score, factor)]
    ELSE e

apply_environmental_adjustment(e, factor) ==
    IF factor < One /\ factor > 0
    THEN [e EXCEPT !.score = damped(e.score, factor)]
    ELSE e

---------------------------------------------------------------------------
(* Inputs of the engine's callers *)

Sources == {"Timing", "Jitter", "HardwareBreakpoint", "Ptrace"}

(* (weight, confidence) pairs: weight 0, confidence 0, a half, certainty,  *)
(* and weights that reach the top of the u32 range                         *)
WeightConfidences ==
    {<<0, One>>, <<40, 0>>, <<40, 50>>, <<40, One>>, <<MaxU32, 50>>,
     <<MaxU32, One>>}

Factors == {0 - 50, 0, 50, 75, One, 150}

ContradictionPairs == {<<"HardwareBreakpoint", "Timing">>}

Call(source, weight, confidence) ==
    [source |-> source, weight |-> weight, confidence |-> confidence]

NoOp == [name |-> "new"]

---------------------------------------------------------------------------
(* The engine under arbitrary calls *)

EngineInit ==
    /\ engine = new
    /\ panicked = FALSE
    /\ profile \in {"debug", "release"}
    /\ calls = <<>>
    /\ damps = 0
    /\ op = NoOp
    /\ pre = new
    /\ nops = 0

PermOff ==
    /\ engineB = new
    /\ panickedB = FALSE
    /\ todoA = <<>>
    /\ todoB = <<>>
    /\ ppc = "off"
    /\ verdicts = <<>>

NoEnvironment == [cpu_governor |-> "None", smt_active |-> "None",
                  adjustment_factor |-> One]

MainOff ==
    /\ pc = "off"
    /\ env_state = NoEnvironment
    /\ verdict = "None"
    /\ exit_code = 0 - 1
    /\ payload_ran = FALSE
    /\ anomalies = {}
    /\ trace = <<>>

(* the signals the detectors install handlers for *)
Signals == {"SIGSEGV", "SIGUSR1", "SIGUSR2"}

(* a fresh process: the statics of signal_compat.rs as initialised, no     *)
(* tracer, default dispositions                                            *)
ProcessOff ==
    /\ TracerPid = 0
    /\ ANTIDEBUG_GDB_COMPATIBLE = FALSE
    /\ TRACER_CHECKED = FALSE
    /\ CACHED_TRACER_PID = 0
    /\ GDB_COMPAT_MODE = FALSE
    /\ sigactions = [sig \in Signals |-> "SIG_DFL"]
    /\ proc_reads = 0

(* no detector is being followed; the statics as initialised *)
SignalOff ==
    /\ dpc = "off"
    /\ DR_ACCESS_FAULTED = FALSE
    /\ SIGNAL_ORDER = 0
    /\ SIGNAL_COUNT = 0
    /\ pending = {}
    /\ handlers = <<>>

InputOff ==
    /\ samples = <<>>
    /\ stats = [of |-> "None"]
    /\ SignalOff
    /\ region = <<>>

Init == EngineInit /\ PermOff /\ MainOff /\ ProcessOff /\ InputOff

(* a caller other than main is driving the engine *)
CanCall == pc = "off" /\ ~panicked /\ nops < MaxOps

ReportFrom(S, WC) ==
    /\ CanCall
    /\ Len(calls) < MaxReports
    /\ \E s \in S, wc \in WC :
         LET o == IF wc[2] = One
                  THEN report(engine, profile, s, wc[1])
                  ELSE report_with_confidence(engine, profile, s, wc[1],
                                              wc[2])
         IN  /\ engine' = o.engine
             /\ panicked' = o.panicked
             /\ calls' = Append(calls, Call(s, wc[1], wc[2]))
             /\ op' = [name |-> "report", source |-> s, weight |-> wc[1],
                       confidence |-> wc[2]]
    /\ pre' = engine
    /\ nops' = nops + 1
    /\ UNCHANGED <<profile, damps, permVars, mainVars,
                   processVars, inputVars, signalVars>>

Report == ReportFrom(Sources, WeightConfidences)

RecordContradiction ==
    /\ CanCall
    /\ \E p \in ContradictionPairs :
         /\ engine' = record_contradiction(engine, p[1], p[2])
         /\ op' = [name |-> "record_contradiction", source_a |-> p[1],
                   source_b |-> p[2]]
    /\ pre' = engine
    /\ nops' = nops + 1
    /\ UNCHANGED <<panicked, profile, calls, damps, permVars, mainVars,
                   processVars, inputVars, signalVars>>

AnalyzeContradictions ==
    /\ CanCall
    /\ LET o == analyze_contradictions(engine, profile)
       IN  /\ engine' = o.engine
           /\ panicked' = o.panicked
    /\ op' = [name |-> "analyze_contradictions"]
    /\ pre' = engine
    /\ nops' = nops + 1
    /\ UNCHANGED <<profile, calls, damps, permVars, mainVars,
                   processVars, inputVars, signalVars>>

ApplyEnvironmentalAdjustment ==
    /\ CanCall
    /\ \E f \in Factors :
         /\ engine' = apply_environmental_adjustment(engine, f)
         /\ damps' = IF f > 0 /\ f < One THEN damps + 1 ELSE damps
         /\ op' = [name |-> "apply_environmental_adjustment", factor |-> f]
    /\ pre' = engine
    /\ nops' = nops + 1
    /\ UNCHANGED <<panicked, profile, calls, permVars, mainVars,
                   processVars, inputVars, signalVars>>

(* decide() reads the engine and returns the verdict; it is not counted   *)
(* among the mutating calls                                                *)
Decide ==
    /\ pc = "off"
    /\ ~panicked
    /\ op' = [name |-> "decide", verdict |-> decide(engine)]
    /\ pre' = engine
    /\ UNCHANGED <<engine, panicked, profile, calls, damps, nops, permVars,
                   mainVars,
                   processVars, inputVars, signalVars>>

Next ==
    \/ Report
    \/ RecordContradiction
    \/ AnalyzeContradictions
    \/ ApplyEnvironmentalAdjustment
    \/ Decide

Spec == Init /\ [][Next]_vars

---------------------------------------------------------------------------
(* The engine at the verdict thresholds: certain reports whose weights sum *)
(* to the scores around 20, 50 and 90, and decide()                        *)

BoundaryWeights == {1, 19, 20, 49, 50, 89, 90}

ReportBoundary ==
    ReportFrom({"Int3"}, {<<w, One>> : w \in BoundaryWeights})

DecideNext == ReportBoundary \/ Decide

DecideSpec == Init /\ [][DecideNext]_vars

---------------------------------------------------------------------------
(* Two fresh engines are fed the same reports, the second in a permuted    *)
(* order, and then both go through analyze_contradictions, the adjustment  *)
(* and decide().  Both belong to the same build.                           *)

PermSources == {"Timing", "Ptrace"}

PermWeightConfidences ==
    {<<0, One>>, <<40, 50>>, <<40, One>>, <<MaxU32, One>>}

PermFactors == {50, One}

PermCalls ==
    {Call(s, wc[1], wc[2]) : s \in PermSources, wc \in PermWeightConfidences}

PermutationsOf(seq) ==
    {[i \in 1..Len(seq) |-> seq[f[i]]] : f \in Permutations(1..Len(seq))}

PermInit ==
    /\ EngineInit
    /\ MainOff
    /\ ProcessOff
    /\ InputOff
    /\ engineB = new
    /\ panickedB = FALSE
    /\ todoA \in UNION {[1..n -> PermCalls] : n \in 0..PermLen}
    /\ todoB \in PermutationsOf(todoA)
    /\ ppc = "report"
    /\ verdicts = <<>>

(* an operation on an engine of a process that has panicked does not run *)
StepOf(e, p, o) == IF p THEN Outcome(e, TRUE) ELSE o

PermReport ==
    /\ ppc = "report"
    /\ Len(calls) < Len(todoA)
    /\ LET a  == todoA[Len(calls) + 1]
           b  == todoB[Len(calls) + 1]
           oa == StepOf(engine, panicked,
                        report_with_confidence(engine, profile, a.source,
                                               a.weight, a.confidence))
           ob == StepOf(engineB, panickedB,
                        report_with_confidence(engineB, profile, b.source,
                                               b.weight, b.confidence))
       IN  /\ engine' = oa.engine
           /\ panicked' = oa.panicked
           /\ engineB' = ob.engine
           /\ panickedB' = ob.panicked
           /\ calls' = Append(calls, a)
           /\ op' = [name |-> "report", source |-> a.source,
                     weight |-> a.weight, confidence |-> a.confidence]
    /\ pre' = engine
    /\ nops' = nops + 1
    /\ UNCHANGED <<profile, damps, todoA, todoB, ppc, verdicts, mainVars,
                   processVars, inputVars, signalVars>>

PermAnalyze ==
    /\ ppc = "report"
    /\ Len(calls) = Len(todoA)
    /\ LET oa == StepOf(engine, panicked,
                        analyze_contradictions(engine, profile))
           ob == StepOf(engineB, panickedB,
                        analyze_contradictions(engineB, profile))
       IN  /\ engine' = oa.engine
           /\ panicked' = oa.panicked
           /\ engineB' = ob.engine
           /\ panickedB' = ob.panicked
    /\ op' = [name |-> "analyze_contradictions"]
    /\ pre' = engine
    /\ nops' = nops + 1
    /\ ppc' = "adjust"
    /\ UNCHANGED <<profile, calls, damps, todoA, todoB, verdicts, mainVars,
                   processVars, inputVars, signalVars>>

PermAdjust ==
    /\ ppc = "adjust"
    /\ \E f \in PermFactors :
         /\ engine' = IF panicked THEN engine
                      ELSE apply_environmental_adjustment(engine, f)
         /\ engineB' = IF panickedB THEN engineB
                       ELSE apply_environmental_adjustment(engineB, f)
         /\ damps' = IF f > 0 /\ f < One THEN damps + 1 ELSE damps
         /\ op' = [name |-> "apply_environmental_adjustment", factor |-> f]
    /\ pre' = engine
    /\ nops' = nops + 1
    /\ ppc' = "decide"
    /\ UNCHANGED <<panicked, panickedB, profile, calls, todoA, todoB,
                   verdicts, mainVars,
                   processVars, inputVars, signalVars>>

PermDecide ==
    /\ ppc = "decide"
    /\ verdicts' = <<IF panicked THEN "None" ELSE decide(engine),
                     IF panickedB THEN "None" ELSE decide(engineB)>>
    /\ op' = [name |-> "decide", verdict |-> verdicts'[1]]
    /\ pre' = engine
    /\ ppc' = "done"
    /\ UNCHANGED <<engine, panicked, engineB, panickedB, profile, calls,
                   damps, nops, todoA, todoB, mainVars,
                   processVars, inputVars, signalVars>>

PermNext == PermReport \/ PermAnalyze \/ PermAdjust \/ PermDecide

PermSpec == PermInit /\ [][PermNext]_vars

---------------------------------------------------------------------------
(* main(): signal-compat init, environment snapshot, the detectors in the  *)
(* order of main.rs, contradiction analysis, environmental adjustment,     *)
(* verdict, response.  What a detector measures is an input: each detector *)
(* step draws one of the outcomes below, the reports the detector makes    *)
(* for a measurement (weights and confidences as at the report sites).     *)

(* mutant: `conservative` falls to the arm of the unknown governors *)
calculate_adjustment_conservative_unknown(cpu_governor, smt_active) ==
    LET governor ==
            IF cpu_governor = "None" THEN One
            ELSE IF cpu_governor = "performance" THEN One
            ELSE IF cpu_governor \in {"schedutil", "ondemand"}
                 THEN (One * 70) \div 100
            ELSE IF cpu_governor = "powersave" THEN (One * 50) \div 100
            ELSE (One * 90) \div 100
    IN  IF smt_active = "true" THEN (governor * 90) \div 100 ELSE governor

(* EnvironmentState::calculate_adjustment; "None" is an unreadable value *)
calculate_adjustment(cpu_governor, smt_active) ==
    LET governor ==
            IF cpu_governor = "None" THEN One
            ELSE IF cpu_governor = "performance" THEN One
            ELSE IF cpu_governor \in {"schedutil", "ondemand", "conservative"}
                 THEN (One * 70) \div 100
            ELSE IF cpu_governor = "powersave" THEN (One * 50) \div 100
            ELSE (One * 90) \div 100
    IN  IF smt_active = "true" THEN (governor * 90) \div 100 ELSE governor

(* EnvironmentState::detect *)
detect(cpu_governor, smt_active) ==
    [cpu_governor |-> cpu_governor, smt_active |-> smt_active,
     adjustment_factor |-> calculate_adjustment(cpu_governor, smt_active)]

(* the environments main is run in here: one governor of each kind that   *)
(* damps differently, SMT off and on                                       *)
Governors == {"None", "schedutil", "powersave"}

SmtStates == {"false", "true"}

(* check_rdtsc_timing: nominal; RDTSC overhead mean > 5000; execution mean *)
(* > 1,000,000 together with a bimodal execution timing                    *)
TimingOutcomes ==
    {<<>>, <<Call("Timing", 40, One)>>,
     <<Call("Timing", 60, One), Call("Timing", 10, 60)>>}

(* check_int3_scanning: no 0xCC byte; a few scattered ones *)
Int3Outcomes == {<<>>, <<Call("Int3", 25, 80)>>}

(* check_trap_flag: the handler fired; it did not, and the detector        *)
(* reports (the weight is not stated: the ends of the documented range)    *)
TrapFlagOutcomes ==
    {<<>>, <<Call("TrapFlag", 1, One)>>, <<Call("TrapFlag", 100, One)>>}

(* check_trap_flag in compat mode: skipped, or replaced by a low-weight    *)
(* report that rests on tracer_pid > 0 alone                               *)
TrapFlagCompatOutcomes(tracer_pid) ==
    IF tracer_pid > 0 THEN {<<>>, <<Call("TrapFlag", 1, One)>>} ELSE {<<>>}

(* check_via_timing: nominal; mean of the NOP loop > 50,000 cycles *)
HardwareBpTimingOutcomes == {<<>>, <<Call("HardwareBreakpoint", 50, One)>>}

(* check_instruction_jitter: nominal; amplification mean > 1,000,000 *)
JitterOutcomes == {<<>>, <<Call("Jitter", 70, One)>>}

(* check_cpuid_hypervisor: hypervisor bit clear; set *)
RecordReplayOutcomes == {<<>>, <<Call("RecordReplay", 15, 40)>>}

(* check_ebpf_comparison: no discrepant trial; one of five *)
EbpfCompareOutcomes == {<<>>, <<Call("EbpfComparison", 30, 20)>>}

DetectorOutcomes(detector) ==
    CASE detector = "timing" -> TimingOutcomes
      [] detector = "int3" -> Int3Outcomes
      [] detector = "jitter" -> JitterOutcomes
      [] detector = "ebpf_compare" -> EbpfCompareOutcomes

---------------------------------------------------------------------------
(* signal_compat.rs.  The TracerPid line of /proc/self/status is <<pid>>,  *)
(* or <<>> when the file cannot be read or holds no parsable line.         *)

read_tracer_pid_from_proc(status) ==
    IF status = <<>> THEN 0 ELSE status[1]

(* mutant: the cache is never consulted *)
get_tracer_pid_always_reads(checked, cached, status) ==
    LET pid == read_tracer_pid_from_proc(status)
    IN  [pid |-> pid, TRACER_CHECKED |-> TRUE, CACHED_TRACER_PID |-> pid,
         reads |-> 1]

(* get_tracer_pid: the value returned, the statics after the call, and the *)
(* number of reads of /proc/self/status it made                            *)
get_tracer_pid(checked, cached, status) ==
    IF checked
    THEN [pid |-> cached, TRACER_CHECKED |-> checked,
          CACHED_TRACER_PID |-> cached, reads |-> 0]
    ELSE LET pid == read_tracer_pid_from_proc(status)
         IN  [pid |-> pid, TRACER_CHECKED |-> TRUE,
              CACHED_TRACER_PID |-> pid, reads |-> 1]

(* enable_gdb_compat_mode *)
enable_gdb_compat_mode(mode) == TRUE

(* signal_compat::init: compat mode after it *)
init(env_set, mode) ==
    IF env_set THEN enable_gdb_compat_mode(mode) ELSE mode

---------------------------------------------------------------------------
(* hardware_bp.rs: check_via_signal_exception.  tracer_pid is what         *)
(* get_tracer_pid returned, sigaction_ok whether installing the handler    *)
(* succeeded, faulted whether the DR7 read raised SIGSEGV.  The result     *)
(* names the reports, the dispositions left behind, and what was done.     *)

(* mutant: the probe is skipped for a tracer without a report *)
check_via_signal_exception_silent(tracer_pid, sa, sigaction_ok, faulted) ==
    IF tracer_pid > 0 \/ ~sigaction_ok
    THEN [calls |-> <<>>, sigactions |-> sa, installed |-> FALSE,
          probed |-> FALSE]
    ELSE [calls |-> IF faulted THEN <<>>
                    ELSE <<Call("HardwareBreakpoint", 30, One)>>,
          sigactions |-> sa, installed |-> TRUE, probed |-> TRUE]

check_via_signal_exception(tracer_pid, sa, sigaction_ok, faulted) ==
    IF tracer_pid > 0
    THEN [calls |-> <<Call("HardwareBreakpoint", 20, 70)>>,
          sigactions |-> sa, installed |-> FALSE, probed |-> FALSE]
    ELSE IF ~sigaction_ok
    THEN [calls |-> <<>>, sigactions |-> sa, installed |-> FALSE,
          probed |-> FALSE]
    ELSE LET old_sa == sa["SIGSEGV"]
             during == [sa EXCEPT !["SIGSEGV"] = "sigsegv_handler"]
             after == [during EXCEPT !["SIGSEGV"] = old_sa]
         IN  [calls |-> IF faulted THEN <<>>
                        ELSE <<Call("HardwareBreakpoint", 30, One)>>,
              sigactions |-> after, installed |-> TRUE, probed |-> TRUE]

(* record_replay.rs: check_signal_determinism installs handlers for        *)
(* SIGUSR1 and SIGUSR2 with signal() and afterwards sets both to SIG_DFL   *)
check_signal_determinism(sa) ==
    LET during == [sa EXCEPT !["SIGUSR1"] = "usr1_handler",
                             !["SIGUSR2"] = "usr2_handler"]
    IN  [during EXCEPT !["SIGUSR1"] = "SIG_DFL", !["SIGUSR2"] = "SIG_DFL"]

(* ptrace.rs: check_tracer_pid reads /proc/self/status itself *)
check_tracer_pid(status) ==
    IF status # <<>> /\ status[1] # 0
    THEN <<Call("Ptrace", 70, One)>> ELSE <<>>

(* ptrace.rs: check_ptrace, res being what ptrace(PTRACE_TRACEME) returned *)
check_ptrace(res) ==
    IF res = 0 - 1 THEN <<Call("Ptrace", 80, One)>> ELSE <<>>

(* the pid of the parent, which traces the process once PTRACE_TRACEME     *)
(* has succeeded                                                           *)
ParentPid == 1

(* /proc/self/status after ptrace(PTRACE_TRACEME) returned res: a process  *)
(* that had no tracer and succeeds is traced by its parent from then on    *)
status_after_traceme(status, res) ==
    IF res = 0 /\ read_tracer_pid_from_proc(status) = 0
    THEN <<ParentPid>> ELSE status

---------------------------------------------------------------------------

Detectors ==
    <<"timing", "int3", "trap_flag", "hardware_bp", "jitter", "record_replay",
      "ebpf_compare", "tracer_pid", "ptrace">>

Phases ==
    <<"signal_compat_init", "environment_detect">>
        \o Detectors
        \o <<"analyze_contradictions", "apply_environmental_adjustment",
             "decide", "apply_response", "done">>

PhaseIndex(phase) == CHOOSE i \in 1..Len(Phases) : Phases[i] = phase

(* mutant: the adjustment step is run again instead of going on to decide *)
phase_after_adjusts_again(phase) ==
    IF phase = "apply_environmental_adjustment" THEN phase
    ELSE Phases[PhaseIndex(phase) + 1]

(* mutant: the PTRACE_TRACEME check runs before the jitter detector *)
phase_after_ptrace_early(phase) ==
    CASE phase = "hardware_bp" -> "ptrace"
      [] phase = "ptrace" -> "jitter"
      [] phase = "tracer_pid" -> "analyze_contradictions"
      [] OTHER -> Phases[PhaseIndex(phase) + 1]

(* the statement of main() that follows `phase` *)
phase_after(phase) == Phases[PhaseIndex(phase) + 1]

IsDetector(phase) == \E i \in 1..Len(Detectors) : Detectors[i] = phase

RECURSIVE report_all(_, _, _)
report_all(e, prof, cs) ==
    IF cs = <<>> THEN Outcome(e, FALSE)
    ELSE LET c == Head(cs)
             o == IF c.confidence = One
                  THEN report(e, prof, c.source, c.weight)
                  ELSE report_with_confidence(e, prof, c.source, c.weight,
                                              c.confidence)
         IN  IF o.panicked THEN o ELSE report_all(o.engine, prof, Tail(cs))

(* mutant: an Instrumented verdict is answered like a Suspicious one *)
apply_response_lenient(v) ==
    CASE v = "Clean" -> [exits |-> FALSE, code |-> 0]
      [] v = "Suspicious" -> [exits |-> FALSE, code |-> 0]
      [] v = "Instrumented" -> [exits |-> FALSE, code |-> 0]
      [] v = "Deceptive" -> [exits |-> TRUE, code |-> 57005]

(* apply_response and what main does after it returns: exits is whether    *)
(* it calls std::process::exit, code the argument of the exit              *)
apply_response(v) ==
    CASE v = "Clean" -> [exits |-> FALSE, code |-> 0]
      [] v = "Suspicious" -> [exits |-> FALSE, code |-> 0]
      [] v = "Instrumented" -> [exits |-> TRUE, code |-> 49374]
      [] v = "Deceptive" -> [exits |-> TRUE, code |-> 57005]

(* the processes main is started in: with or without a tracer, with or     *)
(* without the environment variable, with the default dispositions or with *)
(* dispositions set before (inherited SIG_IGN, a handler of the runtime)   *)
MainTracerPids == {<<0>>, <<12345>>}

MainSigactions ==
    {[sig \in Signals |-> "SIG_DFL"],
     [sig \in Signals |->
        IF sig = "SIGSEGV" THEN "prior_handler" ELSE "SIG_IGN"]}

MainInit ==
    /\ EngineInit
    /\ PermOff
    /\ InputOff
    /\ pc = "signal_compat_init"
    /\ env_state = NoEnvironment
    /\ verdict = "None"
    /\ exit_code = 0 - 1
    /\ payload_ran = FALSE
    /\ anomalies = {}
    /\ trace = <<>>
    /\ TracerPid \in MainTracerPids
    /\ ANTIDEBUG_GDB_COMPATIBLE \in BOOLEAN
    /\ TRACER_CHECKED = FALSE
    /\ CACHED_TRACER_PID = 0
    /\ GDB_COMPAT_MODE = FALSE
    /\ sigactions \in MainSigactions
    /\ proc_reads = 0

Running == ~panicked /\ exit_code = 0 - 1

MainSignalCompatInit ==
    /\ Running
    /\ pc = "signal_compat_init"
    /\ GDB_COMPAT_MODE' = init(ANTIDEBUG_GDB_COMPATIBLE, GDB_COMPAT_MODE)
    /\ LET t == get_tracer_pid(TRACER_CHECKED, CACHED_TRACER_PID, TracerPid)
       IN  /\ TRACER_CHECKED' = t.TRACER_CHECKED
           /\ CACHED_TRACER_PID' = t.CACHED_TRACER_PID
           /\ proc_reads' = proc_reads + t.reads
    /\ pc' = phase_after(pc)
    /\ trace' = Append(trace, pc)
    /\ UNCHANGED <<engineVars, permVars, inputVars, signalVars, env_state, verdict,
                   exit_code, payload_ran, anomalies, TracerPid,
                   ANTIDEBUG_GDB_COMPATIBLE, sigactions>>

MainEnvironmentDetect ==
    /\ Running
    /\ pc = "environment_detect"
    /\ \E g \in Governors, s \in SmtStates : env_state' = detect(g, s)
    /\ pc' = phase_after(pc)
    /\ trace' = Append(trace, pc)
    /\ UNCHANGED <<engineVars, permVars, inputVars, signalVars, processVars, verdict,
                   exit_code, payload_ran, anomalies>>

(* a detector of main reports cs; anomalous: its probes measured an        *)
(* anomaly                                                                 *)
Detect(cs, anomalous, info) ==
    /\ LET o == report_all(engine, profile, cs)
       IN  /\ engine' = o.engine
           /\ panicked' = o.panicked
    /\ calls' = calls \o cs
    /\ nops' = nops + Len(cs)
    /\ anomalies' = IF anomalous THEN anomalies \cup {pc} ELSE anomalies
    /\ op' = info
    /\ pre' = engine
    /\ pc' = phase_after(pc)
    /\ trace' = Append(trace, pc)
    /\ UNCHANGED <<profile, damps, permVars, inputVars, signalVars, env_state, verdict,
                   exit_code, payload_ran, ANTIDEBUG_GDB_COMPATIBLE,
                   GDB_COMPAT_MODE>>

(* timing, int3, jitter, ebpf_compare: detectors that only measure *)
MainDetector ==
    /\ Running
    /\ pc \in {"timing", "int3", "jitter", "ebpf_compare"}
    /\ \E cs \in DetectorOutcomes(pc) : Detect(cs, cs # <<>>, [name |-> pc])
    /\ UNCHANGED <<TracerPid, TRACER_CHECKED, CACHED_TRACER_PID, sigactions,
                   proc_reads>>

MainTrapFlag ==
    /\ Running
    /\ pc = "trap_flag"
    /\ LET t == get_tracer_pid(TRACER_CHECKED, CACHED_TRACER_PID, TracerPid)
       IN  /\ TRACER_CHECKED' = t.TRACER_CHECKED
           /\ CACHED_TRACER_PID' = t.CACHED_TRACER_PID
           /\ proc_reads' = proc_reads + t.reads
           /\ IF GDB_COMPAT_MODE
              THEN \E cs \in TrapFlagCompatOutcomes(t.pid) :
                      Detect(cs, FALSE, [name |-> pc, skipped |-> TRUE])
              ELSE \E cs \in TrapFlagOutcomes :
                      Detect(cs, cs # <<>>, [name |-> pc, skipped |-> FALSE])
    /\ UNCHANGED <<TracerPid, sigactions>>

MainHardwareBp ==
    /\ Running
    /\ pc = "hardware_bp"
    /\ LET t == get_tracer_pid(TRACER_CHECKED, CACHED_TRACER_PID, TracerPid)
       IN  /\ TRACER_CHECKED' = t.TRACER_CHECKED
           /\ CACHED_TRACER_PID' = t.CACHED_TRACER_PID
           /\ proc_reads' = proc_reads + t.reads
           /\ \E sigaction_ok \in BOOLEAN, faulted \in BOOLEAN,
                 timing \in HardwareBpTimingOutcomes :
                LET r == check_via_signal_exception(t.pid, sigactions,
                                                    sigaction_ok, faulted)
                IN  /\ (~r.probed => faulted)
                    /\ (t.pid > 0 => sigaction_ok)
                    /\ sigactions' = r.sigactions
                    /\ Detect(r.calls \o timing,
                              (r.probed /\ ~faulted) \/ timing # <<>>,
                              [name |-> pc, tracer_pid |-> t.pid,
                               installed |-> r.installed,
                               probed |-> r.probed])
    /\ UNCHANGED TracerPid

MainRecordReplay ==
    /\ Running
    /\ pc = "record_replay"
    /\ sigactions' = check_signal_determinism(sigactions)
    /\ \E cs \in RecordReplayOutcomes :
          Detect(cs, cs # <<>>, [name |-> pc])
    /\ UNCHANGED <<TracerPid, TRACER_CHECKED, CACHED_TRACER_PID, proc_reads>>

MainTracerPid ==
    /\ Running
    /\ pc = "tracer_pid"
    /\ Detect(check_tracer_pid(TracerPid), FALSE, [name |-> pc])
    /\ UNCHANGED <<TracerPid, TRACER_CHECKED, CACHED_TRACER_PID, sigactions,
                   proc_reads>>

(* PTRACE_TRACEME: 0 or -1, whatever the tracer relationship (the call can *)
(* be hooked, or refused by the kernel's policy)                           *)
MainPtrace ==
    /\ Running
    /\ pc = "ptrace"
    /\ \E res \in {0, 0 - 1} :
          /\ TracerPid' = status_after_traceme(TracerPid, res)
          /\ Detect(check_ptrace(res), res # 0,
                    [name |-> pc, res |-> res])
    /\ UNCHANGED <<TRACER_CHECKED, CACHED_TRACER_PID, sigactions, proc_reads>>

MainAnalyzeContradictions ==
    /\ Running
    /\ pc = "analyze_contradictions"
    /\ LET o == analyze_contradictions(engine, profile)
       IN  /\ engine' = o.engine
           /\ panicked' = o.panicked
    /\ op' = [name |-> "analyze_contradictions"]
    /\ pre' = engine
    /\ nops' = nops + 1
    /\ pc' = phase_after(pc)
    /\ trace' = Append(trace, pc)
    /\ UNCHANGED <<profile, calls, damps, permVars, inputVars, signalVars, processVars,
                   env_state, verdict, exit_code, payload_ran, anomalies>>

MainApplyEnvironmentalAdjustment ==
    /\ Running
    /\ pc = "apply_environmental_adjustment"
    /\ LET f == env_state.adjustment_factor
       IN  /\ engine' = apply_environmental_adjustment(engine, f)
           /\ damps' = IF f > 0 /\ f < One THEN damps + 1 ELSE damps
           /\ op' = [name |-> "apply_environmental_adjustment", factor |-> f]
    /\ pre' = engine
    /\ nops' = nops + 1
    /\ pc' = phase_after(pc)
    /\ trace' = Append(trace, pc)
    /\ UNCHANGED <<panicked, profile, calls, permVars, inputVars, signalVars, processVars,
                   env_state, verdict, exit_code, payload_ran, anomalies>>

MainDecide ==
    /\ Running
    /\ pc = "decide"
    /\ verdict' = decide(engine)
    /\ op' = [name |-> "decide", verdict |-> decide(engine)]
    /\ pre' = engine
    /\ pc' = phase_after(pc)
    /\ trace' = Append(trace, pc)
    /\ UNCHANGED <<engine, panicked, profile, calls, damps, nops, permVars,
                   inputVars, signalVars, processVars, env_state, exit_code, payload_ran,
                   anomalies>>

MainApplyResponse ==
    /\ Running
    /\ pc = "apply_response"
    /\ LET r == apply_response(verdict)
       IN  /\ exit_code' = r.code
           /\ payload_ran' = ~r.exits
    /\ pc' = phase_after(pc)
    /\ trace' = Append(trace, pc)
    /\ UNCHANGED <<engineVars, permVars, inputVars, signalVars, processVars, env_state,
                   verdict, anomalies>>

MainNext ==
    \/ MainSignalCompatInit
    \/ MainEnvironmentDetect
    \/ MainDetector
    \/ MainTrapFlag
    \/ MainHardwareBp
    \/ MainRecordReplay
    \/ MainTracerPid
    \/ MainPtrace
    \/ MainAnalyzeContradictions
    \/ MainApplyEnvironmentalAdjustment
    \/ MainDecide
    \/ MainApplyResponse

MainSpec == MainInit /\ [][MainNext]_vars

(* The engine under either kind of caller: main, which follows the order  *)
(* of main.rs, or another caller of the public API, which follows none.   *)
CallerInit == Init \/ MainInit

CallerNext == Next \/ MainNext

CallerSpec == CallerInit /\ [][CallerNext]_vars

---------------------------------------------------------------------------
(* The tracer cache of signal_compat.rs under a caller that asks for the   *)
(* tracer and invalidates the cache in any order, while tracers attach and *)
(* detach and /proc/self/status becomes readable or unreadable.            *)

TracerStatuses == {<<>>, <<0>>, <<12345>>}

TracerInit ==
    /\ EngineInit /\ PermOff /\ MainOff /\ InputOff
    /\ TracerPid \in TracerStatuses
    /\ ANTIDEBUG_GDB_COMPATIBLE \in BOOLEAN
    /\ TRACER_CHECKED = FALSE
    /\ CACHED_TRACER_PID = 0
    /\ GDB_COMPAT_MODE = FALSE
    /\ sigactions = [sig \in Signals |-> "SIG_DFL"]
    /\ proc_reads = 0

TracerChanges ==
    /\ \E status \in TracerStatuses \ {TracerPid} : TracerPid' = status
    /\ UNCHANGED <<engineVars, permVars, mainVars, inputVars, signalVars,
                   ANTIDEBUG_GDB_COMPATIBLE, TRACER_CHECKED,
                   CACHED_TRACER_PID, GDB_COMPAT_MODE, sigactions,
                   proc_reads>>

GetTracerPid ==
    /\ nops < MaxOps
    /\ LET t == get_tracer_pid(TRACER_CHECKED, CACHED_TRACER_PID, TracerPid)
       IN  /\ TRACER_CHECKED' = t.TRACER_CHECKED
           /\ CACHED_TRACER_PID' = t.CACHED_TRACER_PID
           /\ proc_reads' = proc_reads + t.reads
           /\ op' = [name |-> "get_tracer_pid", pid |-> t.pid]
    /\ nops' = nops + 1
    /\ UNCHANGED <<engine, panicked, profile, calls, damps, pre, permVars,
                   mainVars, inputVars, signalVars, TracerPid, ANTIDEBUG_GDB_COMPATIBLE,
                   GDB_COMPAT_MODE, sigactions>>

(* invalidate_tracer_cache *)
InvalidateTracerCache ==
    /\ nops < MaxOps
    /\ TRACER_CHECKED' = FALSE
    /\ op' = [name |-> "invalidate_tracer_cache"]
    /\ nops' = nops + 1
    /\ UNCHANGED <<engine, panicked, profile, calls, damps, pre, permVars,
                   mainVars, inputVars, signalVars, TracerPid, ANTIDEBUG_GDB_COMPATIBLE,
                   CACHED_TRACER_PID, GDB_COMPAT_MODE, sigactions,
                   proc_reads>>

(* signal_compat::init *)
SignalCompatInit ==
    /\ nops < MaxOps
    /\ GDB_COMPAT_MODE' = init(ANTIDEBUG_GDB_COMPATIBLE, GDB_COMPAT_MODE)
    /\ LET t == get_tracer_pid(TRACER_CHECKED, CACHED_TRACER_PID, TracerPid)
       IN  /\ TRACER_CHECKED' = t.TRACER_CHECKED
           /\ CACHED_TRACER_PID' = t.CACHED_TRACER_PID
           /\ proc_reads' = proc_reads + t.reads
           /\ op' = [name |-> "init", pid |-> t.pid]
    /\ nops' = nops + 1
    /\ UNCHANGED <<engine, panicked, profile, calls, damps, pre, permVars,
                   mainVars, inputVars, signalVars, TracerPid, ANTIDEBUG_GDB_COMPATIBLE,
                   sigactions>>

TracerNext ==
    \/ TracerChanges
    \/ SignalCompatInit
    \/ GetTracerPid
    \/ InvalidateTracerCache

TracerSpec == TracerInit /\ [][TracerNext]_vars

---------------------------------------------------------------------------
(* The environment model on every kind of governor and SMT state: the      *)
(* snapshot is taken once, raw scores of 90 and 100 (and their sums) are   *)
(* reported, and the snapshot's factor is applied to the score.            *)

AllGovernors ==
    {"None", "performance", "schedutil", "ondemand", "conservative",
     "powersave", "userspace", ""}

AllSmtStates == {"None", "false", "true"}

RawScores == {90, 100}

EnvDetect ==
    /\ pc = "off"
    /\ op.name = "new"
    /\ \E g \in AllGovernors, s \in AllSmtStates : env_state' = detect(g, s)
    /\ op' = [name |-> "detect"]
    /\ UNCHANGED <<engine, panicked, profile, calls, damps, pre, nops,
                   permVars, processVars, inputVars, signalVars, pc, verdict, exit_code,
                   payload_ran, anomalies, trace>>

EnvReport ==
    /\ op.name \in {"detect", "report"}
    /\ ReportFrom({"Int3"}, {<<w, One>> : w \in RawScores})

EnvAdjust ==
    /\ CanCall
    /\ op.name \in {"detect", "report"}
    /\ LET f == env_state.adjustment_factor
       IN  /\ engine' = apply_environmental_adjustment(engine, f)
           /\ damps' = IF f > 0 /\ f < One THEN damps + 1 ELSE damps
           /\ op' = [name |-> "apply_environmental_adjustment", factor |-> f]
    /\ pre' = engine
    /\ nops' = nops + 1
    /\ UNCHANGED <<panicked, profile, calls, permVars, mainVars, processVars,
                   inputVars, signalVars>>

EnvNext == EnvDetect \/ EnvReport \/ EnvAdjust

EnvSpec == Init /\ [][EnvNext]_vars

---------------------------------------------------------------------------
(* timing.rs and jitter.rs: the statistics of a vector of cycle samples.   *)
(* An f64 that the code computes by division is written as the fraction    *)
(* <<numerator, denominator>> of the exact quotient, one that it computes  *)
(* as a square root (stddev, and cv = stddev / mean) as                    *)
(* <<"sqrt", numerator, denominator>> of the fraction under the root; a    *)
(* zero denominator is a division by zero.  The literal 0.0 is <<0, 1>>.   *)

Zero == <<0, 1>>

IsZero(x) == IF Len(x) = 2 THEN x[1] = 0 ELSE x[2] = 0

Denominator(x) == IF Len(x) = 2 THEN x[2] ELSE x[3]

RECURSIVE SumOf(_)
SumOf(s) == IF s = <<>> THEN 0 ELSE Head(s) + SumOf(Tail(s))

(* the sum over the samples x of (n * x - sum)^2, which is n^2 times the   *)
(* sum of the squared differences from the mean                            *)
RECURSIVE SquaredDiffs(_, _, _)
SquaredDiffs(s, n, sum) ==
    IF s = <<>> THEN 0
    ELSE (n * Head(s) - sum) * (n * Head(s) - sum)
             + SquaredDiffs(Tail(s), n, sum)

MinOf(s) == CHOOSE x \in {s[i] : i \in 1..Len(s)} :
                \A i \in 1..Len(s) : x <= s[i]

MaxOf(s) == CHOOSE x \in {s[i] : i \in 1..Len(s)} :
                \A i \in 1..Len(s) : x >= s[i]

(* mutant: the early return for an empty vector is missing *)
TimingStats_from_samples_unguarded(s) ==
    LET n == Len(s)
        sum == SumOf(s)
        sq == SquaredDiffs(s, n, sum)
    IN  [of |-> "TimingStats",
         mean |-> <<sum, n>>,
         variance |-> <<sq, n * n * n>>,
         min |-> IF s = <<>> THEN 0 ELSE MinOf(s),
         max |-> IF s = <<>> THEN 0 ELSE MaxOf(s),
         samples |-> n,
         cv |-> IF sum > 0 THEN <<"sqrt", sq, n * sum * sum>> ELSE Zero]

(* TimingStats::from_samples *)
TimingStats_from_samples(s) ==
    IF s = <<>>
    THEN [of |-> "TimingStats", mean |-> Zero, variance |-> Zero, min |-> 0,
          max |-> 0, samples |-> 0, cv |-> Zero]
    ELSE LET n == Len(s)
             sum == SumOf(s)
             sq == SquaredDiffs(s, n, sum)
         IN  [of |-> "TimingStats",
              mean |-> <<sum, n>>,
              variance |-> <<sq, n * n * n>>,
              min |-> MinOf(s),
              max |-> MaxOf(s),
              samples |-> n,
              cv |-> IF sum > 0 THEN <<"sqrt", sq, n * sum * sum>>
                     ELSE Zero]

(* mutant: the vector is left in the order it came in *)
sort_unstable_not_done(s) == s

(* samples.sort_unstable() *)
sort_unstable(s) == SortSeq(s, LAMBDA a, b : a < b)

(* JitterStats::from_samples from the sort on: min, max and the            *)
(* percentiles of the sorted vector, which is not empty, at the indices    *)
(* len / 2, (len as f64 * 0.95) as usize and (len as f64 * 0.99) as usize  *)
(* (counted from 0; the f64 products truncate to the integer quotients),   *)
(* and the bimodal flag                                                    *)
percentiles(sorted) ==
    LET n == Len(sorted)
        i50 == n \div 2
        i95 == (n * 95) \div 100
        i99 == (n * 99) \div 100
    IN  [min |-> sorted[1],
         max |-> sorted[n],
         i50 |-> i50, i95 |-> i95, i99 |-> i99,
         p50 |-> sorted[i50 + 1],
         p95 |-> sorted[i95 + 1],
         p99 |-> sorted[i99 + 1],
         bimodal |-> sorted[i95 + 1] > sorted[i50 + 1] * 5
                         /\ sorted[i95 + 1] > 1000]

(* JitterStats::from_samples; the vector is sorted in place, `sorted` is   *)
(* what the caller's vector holds afterwards                               *)
JitterStats_from_samples(s) ==
    IF s = <<>>
    THEN [of |-> "JitterStats", sorted |-> s, samples |-> 0, mean |-> Zero,
          variance |-> Zero, stddev |-> Zero, min |-> 0, max |-> 0,
          p50 |-> 0, p95 |-> 0, p99 |-> 0, cv |-> Zero, bimodal |-> FALSE]
    ELSE LET n == Len(s)
             sum == SumOf(s)
             sq == SquaredDiffs(s, n, sum)
             sorted == sort_unstable(s)
             p == percentiles(sorted)
         IN  [of |-> "JitterStats",
              sorted |-> sorted,
              samples |-> n,
              mean |-> <<sum, n>>,
              variance |-> <<sq, n * n * n>>,
              stddev |-> <<"sqrt", sq, n * n * n>>,
              min |-> p.min,
              max |-> p.max,
              p50 |-> p.p50,
              p95 |-> p.p95,
              p99 |-> p.p99,
              cv |-> IF sum > 0 THEN <<"sqrt", sq, n * sum * sum>>
                     ELSE Zero,
              bimodal |-> p.bimodal]

(* Sample vectors: idle, one cycle, just over the bimodal threshold, slow *)
SampleValues == {0, 1, 1001, 3000}

MaxSamples == 3

StatsInit ==
    /\ EngineInit /\ PermOff /\ MainOff /\ ProcessOff
    /\ samples \in UNION {[1..n -> SampleValues] : n \in 0..MaxSamples}
    /\ stats = [of |-> "None"]
    /\ SignalOff
    /\ region = <<>>

TimingFromSamples ==
    /\ stats' = TimingStats_from_samples(samples)
    /\ op' = [name |-> "TimingStats::from_samples", samples |-> samples]
    /\ UNCHANGED <<engine, panicked, profile, calls, damps, pre, nops,
                   permVars, mainVars, processVars, samples, region,
                   signalVars>>

JitterFromSamples ==
    /\ LET r == JitterStats_from_samples(samples)
       IN  /\ stats' = r
           /\ samples' = r.sorted
    /\ op' = [name |-> "JitterStats::from_samples", samples |-> samples]
    /\ UNCHANGED <<engine, panicked, profile, calls, damps, pre, nops,
                   permVars, mainVars, processVars, region, signalVars>>

StatsNext == TimingFromSamples \/ JitterFromSamples

StatsSpec == StatsInit /\ [][StatsNext]_vars

---------------------------------------------------------------------------
(* int3.rs: the scan of an executable region for 0xCC bytes.  A region is  *)
(* a sequence of groups [cc, gap, times]: `times` repetitions of `cc`      *)
(* bytes 0xCC followed by `gap` other bytes.  With gap = 0 the 0xCC bytes  *)
(* run on into the next group, or to the end of the region.                *)

INT3_ALIGNMENT_THRESHOLD == 1000

INT3_BREAKPOINT_THRESHOLD == 20

Larger(a, b) == IF a >= b THEN a ELSE b

(* scan_for_int3: the number of 0xCC bytes in the range *)
RECURSIVE scan_for_int3(_)
scan_for_int3(r) ==
    IF r = <<>> THEN 0 ELSE Head(r).cc * Head(r).times + scan_for_int3(Tail(r))

(* the loop of analyze_int3_pattern over one group: every 0xCC byte adds   *)
(* to total_count and current_cluster; the first other byte after a        *)
(* cluster closes it                                                       *)
walk_group(st, g) ==
    IF g.gap = 0
    THEN [st EXCEPT !.total_count = @ + g.cc * g.times,
                    !.current_cluster = @ + g.cc * g.times]
    ELSE LET first == st.current_cluster + g.cc
             rest == IF g.times > 1 THEN g.cc ELSE 0
         IN  [total_count |-> st.total_count + g.cc * g.times,
              current_cluster |-> 0,
              largest_cluster |->
                  Larger(st.largest_cluster, Larger(first, rest)),
              num_clusters |->
                  st.num_clusters + (IF first >= 4 THEN 1 ELSE 0)
                      + (IF g.cc >= 4 THEN g.times - 1 ELSE 0)]

RECURSIVE walk(_, _)
walk(st, r) == IF r = <<>> THEN st ELSE walk(walk_group(st, Head(r)), Tail(r))

(* mutant: only a dense cluster counts as alignment *)
analyze_int3_pattern_dense_only(r) ==
    LET st == walk([total_count |-> 0, current_cluster |-> 0,
                    largest_cluster |-> 0, num_clusters |-> 0], r)
        largest_cluster == Larger(st.largest_cluster, st.current_cluster)
    IN  [total |-> st.total_count,
         largest_cluster |-> largest_cluster,
         is_alignment |-> largest_cluster >= 16]

(* analyze_int3_pattern, with the trailing cluster handled after the loop *)
analyze_int3_pattern(r) ==
    LET st == walk([total_count |-> 0, current_cluster |-> 0,
                    largest_cluster |-> 0, num_clusters |-> 0], r)
        largest_cluster == Larger(st.largest_cluster, st.current_cluster)
        num_clusters == st.num_clusters
                            + (IF st.current_cluster >= 4 THEN 1 ELSE 0)
    IN  [total |-> st.total_count,
         largest_cluster |-> largest_cluster,
         is_alignment |-> \/ largest_cluster >= 16
                          \/ (num_clusters > 0 /\ st.total_count > 100)]

(* check_int3_scanning for one matching line of /proc/self/maps *)
check_int3_region(r) ==
    IF scan_for_int3(r) = 0 THEN <<>>
    ELSE LET a == analyze_int3_pattern(r)
         IN  IF a.total > INT3_ALIGNMENT_THRESHOLD /\ a.is_alignment
             THEN <<Call("Int3", 1, 10)>>
             ELSE IF a.is_alignment /\ a.total > 100
             THEN <<Call("Int3", 2, 30)>>
             ELSE IF a.total > INT3_BREAKPOINT_THRESHOLD
             THEN <<Call("Int3", 5, 50)>>
             ELSE <<Call("Int3", 25, 80)>>

(* check_int3_scanning over the matching lines, in file order *)
RECURSIVE check_int3_scanning(_)
check_int3_scanning(rs) ==
    IF rs = <<>> THEN <<>>
    ELSE check_int3_region(Head(rs)) \o check_int3_scanning(Tail(rs))

ClusterLengths == {0, 1, 4, 8, 16, 64}

Repetitions == {1, 21, 617}

MaxGroups == 2

Groups == [cc : ClusterLengths, gap : {0, 1}, times : Repetitions]

Int3Init ==
    /\ EngineInit /\ PermOff /\ MainOff /\ ProcessOff
    /\ samples = <<>>
    /\ stats = [of |-> "None"]
    /\ SignalOff
    /\ region \in UNION {[1..n -> Groups] : n \in 0..MaxGroups}

CheckInt3Scanning ==
    /\ op.name = "new"
    /\ LET cs == check_int3_scanning(<<region>>)
           o == report_all(engine, profile, cs)
       IN  /\ engine' = o.engine
           /\ panicked' = o.panicked
           /\ calls' = calls \o cs
           /\ nops' = nops + Len(cs)
    /\ op' = [name |-> "check_int3_scanning"]
    /\ pre' = engine
    /\ UNCHANGED <<profile, damps, permVars, mainVars, processVars,
                   inputVars, signalVars>>

(* the verdict on what the scan reported *)
Int3Decide == op.name = "check_int3_scanning" /\ Decide

Int3Next == CheckInt3Scanning \/ Int3Decide

Int3Spec == Int3Init /\ [][Int3Next]_vars

---------------------------------------------------------------------------
(* hardware_bp.rs: check_via_signal_exception followed statement by        *)
(* statement.  `trace` logs the statements of the current call, `op` holds *)
(* its locals: tracer_pid, old_sa, the length of the report log on entry,  *)
(* and whether sigsegv_handler ran.  The probe instruction itself          *)
(* (check_debug_registers_via_signal) either raises SIGSEGV, which runs    *)
(* the installed handler, or is masked and raises nothing.                 *)

FaultInit ==
    /\ EngineInit /\ PermOff /\ MainOff
    /\ samples = <<>>
    /\ stats = [of |-> "None"]
    /\ region = <<>>
    /\ TracerPid \in {<<>>, <<0>>, <<12345>>}
    /\ ANTIDEBUG_GDB_COMPATIBLE = FALSE
    /\ TRACER_CHECKED = FALSE
    /\ CACHED_TRACER_PID = 0
    /\ GDB_COMPAT_MODE = FALSE
    /\ sigactions \in MainSigactions
    /\ proc_reads = 0
    /\ dpc = "start"
    /\ DR_ACCESS_FAULTED = FALSE
    /\ SIGNAL_ORDER = 0
    /\ SIGNAL_COUNT = 0
    /\ pending = {}
    /\ handlers = <<>>

(* what every statement of the probe leaves alone *)
FaultFrame ==
    UNCHANGED <<profile, damps, permVars, pc, env_state, verdict, exit_code,
                payload_ran, anomalies, TracerPid, ANTIDEBUG_GDB_COMPATIBLE,
                GDB_COMPAT_MODE, inputVars, SIGNAL_ORDER, SIGNAL_COUNT,
                pending, handlers>>

(* engine.report(...) made by the probe *)
FaultReport(cs) ==
    LET o == report_all(engine, profile, cs)
    IN  /\ engine' = o.engine
        /\ panicked' = o.panicked
        /\ calls' = calls \o cs
        /\ nops' = nops + Len(cs)
        /\ pre' = engine

(* let tracer_pid = get_tracer_pid() *)
ProbeEnter ==
    /\ dpc = "start"
    /\ LET t == get_tracer_pid(TRACER_CHECKED, CACHED_TRACER_PID, TracerPid)
       IN  /\ TRACER_CHECKED' = t.TRACER_CHECKED
           /\ CACHED_TRACER_PID' = t.CACHED_TRACER_PID
           /\ proc_reads' = proc_reads + t.reads
           /\ op' = [name |-> "check_via_signal_exception",
                     tracer_pid |-> t.pid, old_sa |-> "unset",
                     entry |-> Len(calls), handler_ran |-> FALSE]
           /\ dpc' = IF t.pid > 0 THEN "skip" ELSE "install"
    /\ trace' = <<>>
    /\ UNCHANGED <<engine, panicked, calls, nops, pre, sigactions,
                   DR_ACCESS_FAULTED>>
    /\ FaultFrame

(* if tracer_pid > 0 { report_with_confidence(20, 0.7); return } *)
ProbeSkip ==
    /\ dpc = "skip"
    /\ FaultReport(<<Call("HardwareBreakpoint", 20, 70)>>)
    /\ dpc' = "done"
    /\ trace' = Append(trace, "report_skip")
    /\ UNCHANGED <<op, sigactions, DR_ACCESS_FAULTED, TRACER_CHECKED,
                   CACHED_TRACER_PID, proc_reads>>
    /\ FaultFrame

(* sigaction(SIGSEGV, &sa, &mut old_sa), which may fail *)
ProbeInstall ==
    /\ dpc = "install"
    /\ \E ok \in BOOLEAN :
         IF ok
         THEN /\ op' = [op EXCEPT !.old_sa = sigactions["SIGSEGV"]]
              /\ sigactions' =
                     [sigactions EXCEPT !["SIGSEGV"] = "sigsegv_handler"]
              /\ dpc' = "clear"
              /\ trace' = Append(trace, "install")
         ELSE /\ UNCHANGED <<op, sigactions>>
              /\ dpc' = "done"
              /\ trace' = Append(trace, "install_failed")
    /\ UNCHANGED <<engine, panicked, calls, nops, pre, DR_ACCESS_FAULTED,
                   TRACER_CHECKED, CACHED_TRACER_PID, proc_reads>>
    /\ FaultFrame

(* DR_ACCESS_FAULTED.store(false) *)
ProbeClear ==
    /\ dpc = "clear"
    /\ DR_ACCESS_FAULTED' = FALSE
    /\ dpc' = "probe"
    /\ trace' = Append(trace, "clear")
    /\ UNCHANGED <<engine, panicked, calls, nops, pre, op, sigactions,
                   TRACER_CHECKED, CACHED_TRACER_PID, proc_reads>>
    /\ FaultFrame

(* check_debug_registers_via_signal(): on a fault the kernel runs the      *)
(* handler installed for SIGSEGV, sigsegv_handler, which sets the flag and *)
(* steps over the instruction                                              *)
ProbeDr7 ==
    /\ dpc = "probe"
    /\ \E faults \in BOOLEAN :
         /\ DR_ACCESS_FAULTED' =
                IF faults /\ sigactions["SIGSEGV"] = "sigsegv_handler"
                THEN TRUE ELSE DR_ACCESS_FAULTED
         /\ op' = [op EXCEPT !.handler_ran = faults]
    /\ dpc' = "restore"
    /\ trace' = Append(trace, "probe")
    /\ UNCHANGED <<engine, panicked, calls, nops, pre, sigactions,
                   TRACER_CHECKED, CACHED_TRACER_PID, proc_reads>>
    /\ FaultFrame

(* sigaction(SIGSEGV, &old_sa, null) *)
ProbeRestore ==
    /\ dpc = "restore"
    /\ sigactions' = [sigactions EXCEPT !["SIGSEGV"] = op.old_sa]
    /\ dpc' = "read"
    /\ trace' = Append(trace, "restore")
    /\ UNCHANGED <<engine, panicked, calls, nops, pre, op, DR_ACCESS_FAULTED,
                   TRACER_CHECKED, CACHED_TRACER_PID, proc_reads>>
    /\ FaultFrame

(* mutant: the report is made when the access did fault *)
ProbeRead_reports_fault ==
    /\ dpc = "read"
    /\ FaultReport(IF DR_ACCESS_FAULTED
                   THEN <<Call("HardwareBreakpoint", 30, One)>> ELSE <<>>)
    /\ dpc' = "done"
    /\ trace' = Append(trace, "read")
    /\ UNCHANGED <<op, sigactions, DR_ACCESS_FAULTED, TRACER_CHECKED,
                   CACHED_TRACER_PID, proc_reads>>
    /\ FaultFrame

(* if !DR_ACCESS_FAULTED.load() { report(30) } *)
ProbeRead ==
    /\ dpc = "read"
    /\ FaultReport(IF ~DR_ACCESS_FAULTED
                   THEN <<Call("HardwareBreakpoint", 30, One)>> ELSE <<>>)
    /\ dpc' = "done"
    /\ trace' = Append(trace, "read")
    /\ UNCHANGED <<op, sigactions, DR_ACCESS_FAULTED, TRACER_CHECKED,
                   CACHED_TRACER_PID, proc_reads>>
    /\ FaultFrame

(* check_hardware_breakpoints is called again, and the tracer may have     *)
(* attached or detached in between                                         *)
ProbeAgain ==
    /\ dpc = "done"
    /\ ~panicked
    /\ Len(calls) < MaxReports
    /\ dpc' = "start"
    /\ TracerPid' \in {<<0>>, <<12345>>}
    /\ UNCHANGED <<engineVars, permVars, mainVars, ANTIDEBUG_GDB_COMPATIBLE,
                   TRACER_CHECKED, CACHED_TRACER_PID, GDB_COMPAT_MODE,
                   sigactions, proc_reads, inputVars, DR_ACCESS_FAULTED,
                   SIGNAL_ORDER, SIGNAL_COUNT, pending, handlers>>

FaultNext ==
    \/ ProbeEnter
    \/ ProbeSkip
    \/ ProbeInstall
    \/ ProbeClear
    \/ ProbeDr7
    \/ ProbeRestore
    \/ ProbeRead
    \/ ProbeAgain

FaultSpec == FaultInit /\ [][FaultNext]_vars

---------------------------------------------------------------------------
(* hardware_bp.rs: check_via_timing on the vector of ITERATIONS samples of *)
(* get_dr7_indicator().  mean = sum / ITERATIONS is compared through the   *)
(* sum: mean > m exactly when sum > m * ITERATIONS.                        *)

ITERATIONS == 10

(* mutant: the variance report is made whatever the minimum *)
check_via_timing_any_min(timings) ==
    LET sum == SumOf(timings)
        min == MinOf(timings)
        max == MaxOf(timings)
    IN  (IF sum > 50000 * ITERATIONS
         THEN <<Call("HardwareBreakpoint", 50, One)>>
         ELSE IF sum > 10000 * ITERATIONS
         THEN <<Call("HardwareBreakpoint", 20, One)>>
         ELSE <<>>)
        \o (IF max > min * 10
            THEN <<Call("HardwareBreakpoint", 15, One)>> ELSE <<>>)

check_via_timing(timings) ==
    LET sum == SumOf(timings)
        min == MinOf(timings)
        max == MaxOf(timings)
    IN  (IF sum > 50000 * ITERATIONS
         THEN <<Call("HardwareBreakpoint", 50, One)>>
         ELSE IF sum > 10000 * ITERATIONS
         THEN <<Call("HardwareBreakpoint", 20, One)>>
         ELSE <<>>)
        \o (IF max > min * 10 /\ min > 0
            THEN <<Call("HardwareBreakpoint", 15, One)>> ELSE <<>>)

(* Cycle counts of the NOP loop: a stopped counter, the values around the  *)
(* factor 10 between min and max, and around the two thresholds of mean    *)
Dr7Timings == {0, 1, 10, 11, 10000, 10010, 50000, 50010}

(* the vectors of n samples, each at least lo, in nondecreasing order; sum, *)
(* min and max do not depend on the order of the samples                    *)
RECURSIVE TimingVectors(_, _)
TimingVectors(n, lo) ==
    IF n = 0 THEN {<<>>}
    ELSE UNION {{<<v>> \o t : t \in TimingVectors(n - 1, v)} :
                  v \in {x \in Dr7Timings : x >= lo}}

HwTimingInit ==
    /\ EngineInit /\ PermOff /\ MainOff /\ ProcessOff
    /\ samples \in TimingVectors(ITERATIONS, 0)
    /\ stats = [of |-> "None"]
    /\ SignalOff
    /\ region = <<>>

CheckViaTiming ==
    /\ op.name = "new"
    /\ LET cs == check_via_timing(samples)
           o == report_all(engine, profile, cs)
       IN  /\ engine' = o.engine
           /\ panicked' = o.panicked
           /\ calls' = calls \o cs
           /\ nops' = nops + Len(cs)
    /\ op' = [name |-> "check_via_timing"]
    /\ pre' = engine
    /\ UNCHANGED <<profile, damps, permVars, mainVars, processVars,
                   inputVars, signalVars>>

HwTimingNext == CheckViaTiming

HwTimingSpec == HwTimingInit /\ [][HwTimingNext]_vars

---------------------------------------------------------------------------
(* The differences of two readings of the timestamp counter, as each       *)
(* detector takes them.  get_rdtsc() returns a u64; MaxU64 stands for      *)
(* u64::MAX as MaxU32 does for u32::MAX.  `samples` holds the earlier and  *)
(* the later reading, `stats` the difference the detector goes on with.    *)

MaxU64 == 1048575

(* timing.rs: if t2 >= t1 { t2 - t1 } else { 0 } *)
rdtsc_timing_delta(t1, t2) == IF t2 >= t1 THEN t2 - t1 ELSE 0

(* hardware_bp.rs, check_via_data_access_pattern:                          *)
(* if end > start { end - start } else { 0 }                               *)
data_access_delta(start, end) == IF end > start THEN end - start ELSE 0

(* record_replay.rs, check_rdtsc_vs_wall_clock:                            *)
(* tsc_end.saturating_sub(tsc_start)                                       *)
saturating_sub(a, b) == IF a >= b THEN a - b ELSE 0

(* ebpf_compare.rs, measure_syscalls_internally: `t2 - t1` and             *)
(* `end - start` on u64, which panics on underflow when overflow checks    *)
(* are on (debug profile) and wraps otherwise                              *)
syscall_delta(prof, t1, t2) ==
    IF t2 >= t1 THEN [delta |-> t2 - t1, panicked |-> FALSE]
    ELSE IF prof = "debug" THEN [delta |-> 0, panicked |-> TRUE]
    ELSE [delta |-> (t2 - t1) + (MaxU64 + 1), panicked |-> FALSE]

TscReadings == {0, 1, 2, 1000, MaxU64 - 1, MaxU64}

TscInit ==
    /\ EngineInit /\ PermOff /\ MainOff /\ ProcessOff
    /\ samples \in [1..2 -> TscReadings]
    /\ stats = [of |-> "None"]
    /\ SignalOff
    /\ region = <<>>

TscDelta(name, delta, panics) ==
    /\ op.name = "new"
    /\ stats' = [of |-> "delta", delta |-> delta]
    /\ panicked' = panics
    /\ op' = [name |-> name]
    /\ UNCHANGED <<engine, profile, calls, damps, pre, nops, permVars,
                   mainVars, processVars, samples, region, signalVars>>

RdtscTimingDelta ==
    TscDelta("check_rdtsc_timing",
             rdtsc_timing_delta(samples[1], samples[2]), FALSE)

DataAccessDelta ==
    TscDelta("check_via_data_access_pattern",
             data_access_delta(samples[1], samples[2]), FALSE)

RdtscVsWallClockDelta ==
    TscDelta("check_rdtsc_vs_wall_clock",
             saturating_sub(samples[2], samples[1]), FALSE)

SyscallDelta ==
    LET r == syscall_delta(profile, samples[1], samples[2])
    IN  TscDelta("measure_syscalls_internally", r.delta, r.panicked)

TscNext ==
    \/ RdtscTimingDelta
    \/ DataAccessDelta
    \/ RdtscVsWallClockDelta
    \/ SyscallDelta

TscSpec == TscInit /\ [][TscNext]_vars

---------------------------------------------------------------------------
(* policy.rs: the whole public interface of DecisionEngine, the readers    *)
(* (&self) next to the operations that take &mut self                      *)

(* summary(): the score and verdict, the per-source totals and the         *)
(* contradictions, formatted                                               *)
summary(e) ==
    [score |-> e.score, verdict |-> decide(e),
     by_source |-> e.source_weights, contradictions |-> e.contradictions]

(* a call that takes &self: the engine is left as it is *)
Reads(name, result) ==
    /\ pc = "off"
    /\ ~panicked
    /\ op' = [name |-> name, result |-> result]
    /\ pre' = engine
    /\ UNCHANGED <<engine, panicked, profile, calls, damps, nops, permVars,
                   mainVars, processVars, inputVars, signalVars>>

GetScore == Reads("get_score", get_score(engine))

(* mutant: the caller is handed the log and the engine keeps none *)
GetHistory_drains ==
    /\ pc = "off"
    /\ ~panicked
    /\ op' = [name |-> "get_history", result |-> engine.history]
    /\ pre' = engine
    /\ engine' = [engine EXCEPT !.history = <<>>]
    /\ UNCHANGED <<panicked, profile, calls, damps, nops, permVars,
                   mainVars, processVars, inputVars, signalVars>>

GetHistory == Reads("get_history", engine.history)

GetContradictions == Reads("get_contradictions", engine.contradictions)

Summary == Reads("summary", summary(engine))

ApiNext ==
    \/ Report
    \/ RecordContradiction
    \/ AnalyzeContradictions
    \/ ApplyEnvironmentalAdjustment
    \/ Decide
    \/ GetScore
    \/ GetHistory
    \/ GetContradictions
    \/ Summary

ApiSpec == Init /\ [][ApiNext]_vars

---------------------------------------------------------------------------
(* jitter.rs: the percentiles of vectors long enough for the three indices *)
(* to differ.  The vectors are given in nondecreasing or in nonincreasing  *)
(* order.                                                                  *)

MaxVector == 25

JitterCycles == {1, 200, 1000, 1001}

RECURSIVE Ascending(_, _)
Ascending(n, lo) ==
    IF n = 0 THEN {<<>>}
    ELSE UNION {{<<v>> \o t : t \in Ascending(n - 1, v)} :
                  v \in {x \in JitterCycles : x >= lo}}

Reversed(s) == [i \in 1..Len(s) |-> s[Len(s) + 1 - i]]

PercentileInit ==
    /\ EngineInit /\ PermOff /\ MainOff /\ ProcessOff
    /\ \E n \in 1..MaxVector :
          \E v \in Ascending(n, 0) : samples \in {v, Reversed(v)}
    /\ stats = [of |-> "None"]
    /\ SignalOff
    /\ region = <<>>

TakePercentiles ==
    /\ op.name = "new"
    /\ LET sorted == sort_unstable(samples)
       IN  /\ samples' = sorted
           /\ stats' = [of |-> "percentiles", p |-> percentiles(sorted)]
    /\ op' = [name |-> "JitterStats::from_samples", samples |-> samples]
    /\ UNCHANGED <<engine, panicked, profile, calls, damps, pre, nops,
                   permVars, mainVars, processVars, region, signalVars>>

PercentileNext == TakePercentiles

PercentileSpec == PercentileInit /\ [][PercentileNext]_vars

---------------------------------------------------------------------------
(* int3.rs: analyze_int3_pattern byte by byte, on a range given as the     *)
(* sequence of its bytes                                                   *)

INT3 == 204

NOP == 144

(* one turn of the loop `for i in 0..len` *)
walk_byte(st, byte) ==
    IF byte = INT3
    THEN [st EXCEPT !.total_count = @ + 1, !.current_cluster = @ + 1]
    ELSE IF st.current_cluster > 0
    THEN [st EXCEPT
            !.largest_cluster = Larger(@, st.current_cluster),
            !.num_clusters =
                IF st.current_cluster >= 4 THEN @ + 1 ELSE @,
            !.current_cluster = 0]
    ELSE st

RECURSIVE walk_bytes(_, _)
walk_bytes(st, bytes) ==
    IF bytes = <<>> THEN st
    ELSE walk_bytes(walk_byte(st, Head(bytes)), Tail(bytes))

(* mutant: what the loop leaves is returned, the cluster that runs to the  *)
(* end of the range is not looked at                                       *)
analyze_int3_bytes_loop_only(bytes) ==
    LET st == walk_bytes([total_count |-> 0, current_cluster |-> 0,
                          largest_cluster |-> 0, num_clusters |-> 0], bytes)
    IN  [total |-> st.total_count,
         largest_cluster |-> st.largest_cluster,
         num_clusters |-> st.num_clusters,
         is_alignment |-> \/ st.largest_cluster >= 16
                          \/ (st.num_clusters > 0 /\ st.total_count > 100)]

(* analyze_int3_pattern(ptr, len); num_clusters is its local *)
analyze_int3_bytes(bytes) ==
    LET st == walk_bytes([total_count |-> 0, current_cluster |-> 0,
                          largest_cluster |-> 0, num_clusters |-> 0], bytes)
        largest_cluster == Larger(st.largest_cluster, st.current_cluster)
        num_clusters == IF st.current_cluster >= 4
                        THEN st.num_clusters + 1 ELSE st.num_clusters
    IN  [total |-> st.total_count,
         largest_cluster |-> largest_cluster,
         num_clusters |-> num_clusters,
         is_alignment |-> \/ largest_cluster >= 16
                          \/ (num_clusters > 0 /\ st.total_count > 100)]

MaxBytes == 9

BytesInit ==
    /\ EngineInit /\ PermOff /\ MainOff /\ ProcessOff
    /\ samples = <<>>
    /\ stats = [of |-> "None"]
    /\ SignalOff
    /\ region \in UNION {[1..n -> {INT3, NOP}] : n \in 0..MaxBytes}

AnalyzeInt3Pattern ==
    /\ op.name = "new"
    /\ stats' = [of |-> "analyze_int3_pattern",
                 r |-> analyze_int3_bytes(region)]
    /\ op' = [name |-> "analyze_int3_pattern"]
    /\ UNCHANGED <<engine, panicked, profile, calls, damps, pre, nops,
                   permVars, mainVars, processVars, samples, region,
                   signalVars>>

BytesNext == AnalyzeInt3Pattern

BytesSpec == BytesInit /\ [][BytesNext]_vars

---------------------------------------------------------------------------
(* int3.rs: check_int3_scanning over the lines of /proc/self/maps.  A line *)
(* is its permission field, its path as a sequence of characters, and the  *)
(* bytes of the range; `region` holds the lines in file order.             *)

(* str::contains *)
contains(s, t) ==
    \E i \in 1..(Len(s) - Len(t) + 1) : SubSeq(s, i, i + Len(t) - 1) = t

(* std::env::current_exe(): "/a" *)
current_exe == <<"/", "a">>

(* the paths "/a", "/ab", "/l/a" and "/l" *)
MapsPaths ==
    {<<"/", "a">>, <<"/", "a", "b">>, <<"/", "l", "/", "a">>, <<"/", "l">>}

MapsLines ==
    [perms : {"r-xp", "r--p"},
     path : MapsPaths,
     bytes : {<<>>, <<[cc |-> 1, gap |-> 1, times |-> 1]>>}]

MaxLines == 2

(* l.contains(" r-xp ") && l.contains(&*self_exe_str) *)
line_selected(l) == l.perms = "r-xp" /\ contains(l.path, current_exe)

(* the lines of the file that pass the test, by position *)
lines_scanned(maps) == {i \in 1..Len(maps) : line_selected(maps[i])}

RECURSIVE ranges_scanned(_)
ranges_scanned(maps) ==
    IF maps = <<>> THEN <<>>
    ELSE (IF line_selected(Head(maps)) THEN <<Head(maps).bytes>> ELSE <<>>)
             \o ranges_scanned(Tail(maps))

MapsInit ==
    /\ EngineInit /\ PermOff /\ MainOff /\ ProcessOff
    /\ samples = <<>>
    /\ stats = [of |-> "None"]
    /\ SignalOff
    /\ region \in UNION {[1..n -> MapsLines] : n \in 0..MaxLines}

ScanMaps ==
    /\ op.name = "new"
    /\ LET cs == check_int3_scanning(ranges_scanned(region))
           o == report_all(engine, profile, cs)
       IN  /\ engine' = o.engine
           /\ panicked' = o.panicked
           /\ calls' = calls \o cs
           /\ nops' = nops + Len(cs)
    /\ op' = [name |-> "check_int3_scanning",
              scanned |-> lines_scanned(region)]
    /\ pre' = engine
    /\ UNCHANGED <<profile, damps, permVars, mainVars, processVars,
                   inputVars, signalVars>>

MapsNext == ScanMaps

MapsSpec == MapsInit /\ [][MapsNext]_vars

---------------------------------------------------------------------------
(* record_replay.rs: check_signal_determinism, step by step.  The main     *)
(* flow is at dpc; a signal sent with kill() is pending until it is        *)
(* delivered, which may happen at any later moment; a delivered signal     *)
(* runs its handler on top of whatever was running, and signal() keeps a   *)
(* signal blocked while its own handler runs.  `samples` is the vector     *)
(* `orders`; op.log lists the stores and handler steps since the trial's   *)
(* SIGNAL_ORDER.store(0).                                                  *)

NUM_TRIALS == 20

(* the trials followed *)
MaxTrials == 2

(* usr1_handler adds (count + 1) * 1, usr2_handler (count + 1) * 10 *)
multiplier_same(sig) == 1

multiplier(sig) == IF sig = "SIGUSR1" THEN 1 ELSE 10

Blocked == {handlers[i].sig : i \in 1..Len(handlers)}

SignalFrame ==
    UNCHANGED <<profile, damps, permVars, mainVars, TracerPid,
                ANTIDEBUG_GDB_COMPATIBLE, TRACER_CHECKED, CACHED_TRACER_PID,
                GDB_COMPAT_MODE, proc_reads, stats, region,
                DR_ACCESS_FAULTED>>

Logged(ev) == op' = [op EXCEPT !.log = Append(op.log, ev)]

SignalInit ==
    /\ EngineInit /\ PermOff /\ MainOff /\ ProcessOff
    /\ samples = <<>>
    /\ stats = [of |-> "None"]
    /\ region = <<>>
    /\ dpc = "install"
    /\ DR_ACCESS_FAULTED = FALSE
    /\ SIGNAL_ORDER = 0
    /\ SIGNAL_COUNT = 0
    /\ pending = {}
    /\ handlers = <<>>

(* libc::signal(SIGUSR1, usr1_handler); libc::signal(SIGUSR2, usr2_handler) *)
InstallHandlers ==
    /\ dpc = "install" /\ handlers = <<>>
    /\ sigactions' = [sigactions EXCEPT !["SIGUSR1"] = "usr1_handler",
                                        !["SIGUSR2"] = "usr2_handler"]
    /\ op' = [name |-> "check_signal_determinism", log |-> <<>>]
    /\ pre' = engine
    /\ dpc' = "store_order"
    /\ UNCHANGED <<engine, panicked, calls, nops, samples, SIGNAL_ORDER,
                   SIGNAL_COUNT, pending, handlers>>
    /\ SignalFrame

(* for _ in 0..NUM_TRIALS: SIGNAL_ORDER.store(0) *)
StoreOrder ==
    /\ dpc = "store_order" /\ handlers = <<>>
    /\ Len(samples) < NUM_TRIALS /\ Len(samples) < MaxTrials
    /\ SIGNAL_ORDER' = 0
    /\ op' = [op EXCEPT !.log = <<>>]
    /\ dpc' = "store_count"
    /\ UNCHANGED <<engine, panicked, calls, nops, pre, samples, sigactions,
                   SIGNAL_COUNT, pending, handlers>>
    /\ SignalFrame

(* SIGNAL_COUNT.store(0) *)
StoreCount ==
    /\ dpc = "store_count" /\ handlers = <<>>
    /\ SIGNAL_COUNT' = 0
    /\ Logged([sig |-> "none", step |-> "store"])
    /\ dpc' = "kill_usr1"
    /\ UNCHANGED <<engine, panicked, calls, nops, pre, samples, sigactions,
                   SIGNAL_ORDER, pending, handlers>>
    /\ SignalFrame

(* libc::kill(pid, SIGUSR1), then libc::kill(pid, SIGUSR2) *)
Kill(sig, at, next) ==
    /\ dpc = at /\ handlers = <<>>
    /\ pending' = pending \cup {sig}
    /\ dpc' = next
    /\ UNCHANGED <<engine, panicked, calls, nops, op, pre, samples,
                   sigactions, SIGNAL_ORDER, SIGNAL_COUNT, handlers>>
    /\ SignalFrame

KillUsr1 == Kill("SIGUSR1", "kill_usr1", "kill_usr2")

KillUsr2 == Kill("SIGUSR2", "kill_usr2", "sleep")

(* after the sleep: orders.push(SIGNAL_ORDER.load()) *)
PushOrder ==
    /\ dpc = "sleep" /\ handlers = <<>>
    /\ samples' = Append(samples, SIGNAL_ORDER)
    /\ dpc' = "store_order"
    /\ UNCHANGED <<engine, panicked, calls, nops, op, pre, sigactions,
                   SIGNAL_ORDER, SIGNAL_COUNT, pending, handlers>>
    /\ SignalFrame

(* the kernel delivers a pending signal that is not blocked *)
Deliver ==
    /\ \E sig \in pending :
        /\ sig \notin Blocked
        /\ sigactions[sig] # "SIG_DFL"
        /\ pending' = pending \ {sig}
        /\ handlers' = Append(handlers, [sig |-> sig, at |-> "count",
                                          count |-> 0])
    /\ UNCHANGED <<engine, panicked, calls, nops, op, pre, samples,
                   sigactions, dpc, SIGNAL_ORDER, SIGNAL_COUNT>>
    /\ SignalFrame

(* let count = SIGNAL_COUNT.fetch_add(1) *)
HandlerCount ==
    /\ handlers # <<>>
    /\ LET top == handlers[Len(handlers)]
       IN  /\ top.at = "count"
           /\ SIGNAL_COUNT' = (SIGNAL_COUNT + 1) % (MaxU32 + 1)
           /\ handlers' = [handlers EXCEPT ![Len(handlers)] =
                              [top EXCEPT !.at = "order",
                                          !.count = SIGNAL_COUNT]]
           /\ Logged([sig |-> top.sig, step |-> "count"])
    /\ UNCHANGED <<engine, panicked, calls, nops, pre, samples, sigactions,
                   dpc, SIGNAL_ORDER, pending>>
    /\ SignalFrame

(* SIGNAL_ORDER.fetch_add((count + 1) * k); the handler returns *)
HandlerOrder ==
    /\ handlers # <<>>
    /\ LET top == handlers[Len(handlers)]
       IN  /\ top.at = "order"
           /\ SIGNAL_ORDER' =
                  (SIGNAL_ORDER + (top.count + 1) * multiplier(top.sig))
                      % (MaxU32 + 1)
           /\ handlers' = SubSeq(handlers, 1, Len(handlers) - 1)
           /\ Logged([sig |-> top.sig, step |-> "order"])
    /\ UNCHANGED <<engine, panicked, calls, nops, pre, samples, sigactions,
                   dpc, SIGNAL_COUNT, pending>>
    /\ SignalFrame

(* libc::signal(.., SIG_DFL) for both; all_same over orders; the report *)
(* when the system load is 0.5 or more                                  *)
SignalDecide ==
    /\ dpc = "store_order" /\ handlers = <<>>
    /\ ~(Len(samples) < NUM_TRIALS /\ Len(samples) < MaxTrials)
    /\ sigactions' = [sigactions EXCEPT !["SIGUSR1"] = "SIG_DFL",
                                        !["SIGUSR2"] = "SIG_DFL"]
    /\ \E load \in {0, 49, 50, 200} :
        LET all_same == \A i \in 1..(Len(samples) - 1) :
                            samples[i] = samples[i + 1]
            cs == IF all_same /\ samples # <<>> /\ ~(load < 50)
                  THEN <<Call("RecordReplay", 2, 15)>> ELSE <<>>
            o == report_all(engine, profile, cs)
        IN  /\ engine' = o.engine
            /\ panicked' = o.panicked
            /\ calls' = calls \o cs
            /\ nops' = nops + Len(cs)
    /\ dpc' = "done"
    /\ UNCHANGED <<op, pre, samples, SIGNAL_ORDER, SIGNAL_COUNT, pending,
                   handlers>>
    /\ SignalFrame

SignalNext ==
    \/ InstallHandlers
    \/ StoreOrder
    \/ StoreCount
    \/ KillUsr1
    \/ KillUsr2
    \/ PushOrder
    \/ Deliver
    \/ HandlerCount
    \/ HandlerOrder
    \/ SignalDecide

SignalSpec == SignalInit /\ [][SignalNext]_vars

---------------------------------------------------------------------------
(* What the callers asked for, computed from the log of calls *)

Floor(weight, confidence) == (weight * confidence) \div One

RECURSIVE SumOfCalls(_, _)
SumOfCalls(cs, S) ==
    IF cs = <<>> THEN 0
    ELSE LET c == Head(cs)
         IN  (IF c.source \in S THEN Floor(c.weight, c.confidence) ELSE 0)
             + SumOfCalls(Tail(cs), S)

Reported == SumOfCalls(calls, DetectionSource)

ExpectedScore == Reported + ContradictionBonus * Len(engine.contradictions)

---------------------------------------------------------------------------
(* C1: after any sequence of report / report_with_confidence and           *)
(* record_contradiction calls, before any damping, the score is the sum    *)
(* over the report calls of floor(weight * confidence) plus 30 per         *)
(* recorded contradiction, for totals within the u32 range.                *)
C1_ScoreIsSum ==
    (~panicked /\ damps = 0 /\ ExpectedScore <= MaxU32)
        => engine.score = ExpectedScore

C1_Witness ==
    /\ ~panicked /\ damps = 0
    /\ Len(calls) = 2 /\ Len(engine.contradictions) = 1
    /\ calls[1].confidence = 50 /\ calls[2].confidence = One
    /\ engine.score = 20 + 40 + 30

(* C2: with at least one recorded contradiction decide() returns           *)
(* Deceptive whatever the score, also after damping took the score down.   *)
C2_ContradictionIsDeceptive ==
    /\ (~panicked /\ engine.contradictions # <<>>)
          => decide(engine) = "Deceptive"
    /\ (op.name = "decide" /\ pre.contradictions # <<>>)
          => op.verdict = "Deceptive"

C2_Witness ==
    /\ op.name = "decide" /\ op.verdict = "Deceptive"
    /\ Len(engine.contradictions) = 1
    /\ damps > 0
    /\ engine.score < SuspiciousThreshold

---------------------------------------------------------------------------
(* The effect of the last analyze_contradictions call *)

AnyEvidenceFrom(source) ==
    \E i \in 1..Len(calls) : calls[i].source = source

PositiveEvidenceFrom(source) ==
    \E i \in 1..Len(calls) :
        /\ calls[i].source = source
        /\ Floor(calls[i].weight, calls[i].confidence) > 0

Analyzed == op.name = "analyze_contradictions" /\ ~panicked

RecordedTimingPtrace ==
    /\ engine.contradictions =
          Append(pre.contradictions,
                 [source_a |-> "Timing", source_b |-> "Ptrace"])
    /\ engine.score =
          (IF pre.score + ContradictionBonus > MaxU32 THEN MaxU32
           ELSE pre.score + ContradictionBonus)
    /\ engine.history = pre.history
    /\ engine.source_weights = pre.source_weights

RecordedNothing == engine = pre

---------------------------------------------------------------------------
(* The verdicts in order of severity *)
Rank(v) ==
    CASE v = "Clean" -> 0
      [] v = "Suspicious" -> 1
      [] v = "Instrumented" -> 2
      [] v = "Deceptive" -> 3

VerdictOfScore(s) ==
    CASE s \in 0..19 -> "Clean"
      [] s \in 20..49 -> "Suspicious"
      [] s \in 50..89 -> "Instrumented"
      [] s >= 90 -> "Deceptive"

Decided == op.name = "decide" /\ pre.contradictions = <<>>

(* C4: with no contradiction recorded decide() maps the score to the       *)
(* verdict by the thresholds 20, 50, 90 (19, 20, 49, 50, 89, 90 give       *)
(* Clean, Suspicious, Suspicious, Instrumented, Instrumented, Deceptive),  *)
(* and the verdict is monotone non-decreasing in the score.                *)
C4_Thresholds ==
    Decided =>
        /\ op.verdict = VerdictOfScore(pre.score)
        /\ pre.score = 19 => op.verdict = "Clean"
        /\ pre.score = 20 => op.verdict = "Suspicious"
        /\ pre.score = 49 => op.verdict = "Suspicious"
        /\ pre.score = 50 => op.verdict = "Instrumented"
        /\ pre.score = 89 => op.verdict = "Instrumented"
        /\ pre.score = 90 => op.verdict = "Deceptive"
        /\ \A s \in 0..pre.score :
              Rank(decide([pre EXCEPT !.score = s])) <= Rank(op.verdict)

C4_Witness ==
    /\ Decided
    /\ pre.score = 89 /\ Len(calls) = 1
    /\ op.verdict = "Instrumented"

---------------------------------------------------------------------------
(* C5 as stated: after any sequence of engine operations every source's    *)
(* per-source total equals the sum of floor(weight * confidence) over the  *)
(* reports made with that source.                                          *)
C5_AsStated ==
    ~panicked =>
        \A s \in DetectionSource :
            get_source_weight(engine, s) = SumOfCalls(calls, {s})

(* C6 as stated: every Evidence record holds the source, weight and        *)
(* confidence the caller gave, so that before damping the score is the sum *)
(* over the log of floor(e.weight * e.confidence) plus 30 per              *)
(* contradiction.                                                          *)
RECURSIVE SumOfLog(_)
SumOfLog(h) ==
    IF h = <<>> THEN 0
    ELSE Floor(Head(h).weight, Head(h).confidence) + SumOfLog(Tail(h))

C6_AsStated ==
    (~panicked /\ ExpectedScore <= MaxU32) =>
        /\ Len(engine.history) = Len(calls)
        /\ \A i \in 1..Len(calls) :
              /\ engine.history[i].source = calls[i].source
              /\ engine.history[i].weight = calls[i].weight
              /\ engine.history[i].confidence = calls[i].confidence
        /\ damps = 0 =>
              engine.score =
                  SumOfLog(engine.history)
                  + ContradictionBonus * Len(engine.contradictions)

---------------------------------------------------------------------------
(* The effect of the last apply_environmental_adjustment call *)

Adjusted == op.name = "apply_environmental_adjustment"

OnlyScoreMayDiffer ==
    /\ engine.history = pre.history
    /\ engine.contradictions = pre.contradictions
    /\ engine.source_weights = pre.source_weights

---------------------------------------------------------------------------
(* The effect of the last report call *)

Reported0 ==
    /\ op.name = "report" /\ ~panicked
    /\ (op.weight = 0 \/ op.confidence = 0)

(* C10: a report with weight 0 or confidence 0 leaves the score and every  *)
(* per-source total unchanged and appends exactly one Evidence record.     *)
C10_ZeroReport ==
    Reported0 =>
        /\ engine.score = pre.score
        /\ \A s \in DetectionSource :
              get_source_weight(engine, s) = get_source_weight(pre, s)
        /\ Len(engine.history) = Len(pre.history) + 1
        /\ SubSeq(engine.history, 1, Len(pre.history)) = pre.history
        /\ engine.history[Len(engine.history)].source = op.source
        /\ engine.contradictions = pre.contradictions

C10_Witness ==
    /\ Reported0
    /\ op.weight = 40 /\ op.confidence = 0
    /\ pre.score = 40
    /\ Len(engine.history) = 2

---------------------------------------------------------------------------
(* The evidence logs of the two engines hold the same records *)
Occurrences(h, x) == Cardinality({i \in 1..Len(h) : h[i] = x})

SameRecords(h1, h2) ==
    /\ Len(h1) = Len(h2)
    /\ \A i \in 1..Len(h1) : Occurrences(h1, h1[i]) = Occurrences(h2, h1[i])

AllReported == ppc # "off" /\ Len(calls) = Len(todoA)

(* C9: whatever the order in which a multiset of reports is made to a      *)
(* fresh engine, the score, the per-source totals and the verdict come out *)
(* the same, after the reports and after the same analyze_contradictions / *)
(* adjustment / decide steps, also when the score saturates; only the      *)
(* order of the evidence log may differ.                                   *)
C9_OrderIndependence ==
    AllReported =>
        /\ panicked = panickedB
        /\ ~panicked =>
              /\ engine.score = engineB.score
              /\ \A s \in DetectionSource :
                    get_source_weight(engine, s) = get_source_weight(engineB, s)
              /\ engine.contradictions = engineB.contradictions
              /\ SameRecords(engine.history, engineB.history)
              /\ decide(engine) = decide(engineB)
              /\ ppc = "done" => verdicts[1] = verdicts[2]

C9_Witness ==
    /\ ppc = "done" /\ ~panicked
    /\ Len(todoA) = 3
    /\ todoA[1] # todoB[1] /\ todoA[2] # todoB[2] /\ todoA[3] # todoB[3]
    /\ engine.history # engineB.history
    /\ SumOfCalls(calls, DetectionSource) > MaxU32
    /\ engine.score = MaxU32
    /\ verdicts = <<"Deceptive", "Deceptive">>

---------------------------------------------------------------------------
(* C8 as stated: over any sequence of operations on a DecisionEngine the   *)
(* score is damped at most once; once apply_environmental_adjustment has   *)
(* been applied with 0 < f < 1 a further call does not damp the score      *)
(* again.                                                                  *)
C8_AsStated ==
    (Adjusted /\ damps >= 2) => engine.score = pre.score

AdjustmentDone ==
    PhaseIndex(pc) > PhaseIndex("apply_environmental_adjustment")

(* C8 amended: in a run of the program the adjustment is applied exactly   *)
(* once, by main, after analyze_contradictions and before decide, so the   *)
(* score is damped at most once per run; the engine itself does not        *)
(* remember that it was damped.                                            *)
C8_MainAdjustsOnce ==
    pc # "off" =>
      /\ damps <= 1
      /\ ~AdjustmentDone => damps = 0
      /\ (AdjustmentDone /\ ~panicked) =>
            /\ damps = (IF env_state.adjustment_factor < One THEN 1 ELSE 0)
            /\ pc = "decide" =>
                  /\ Adjusted
                  /\ op.factor = env_state.adjustment_factor
                  /\ engine.score =
                        (IF op.factor < One THEN damped(pre.score, op.factor)
                         ELSE pre.score)

C8_Witness ==
    /\ pc = "done"
    /\ damps = 1
    /\ env_state.cpu_governor = "powersave"
    /\ env_state.smt_active = "false"
    /\ engine.score = 42
    /\ Len(engine.history) = 2
    /\ verdict = "Suspicious"

---------------------------------------------------------------------------
(* C11 as stated: all score arithmetic saturates; when the accumulated     *)
(* contributions exceed the 32-bit unsigned maximum neither the score nor  *)
(* a per-source total wraps around or aborts, each stays at the maximum.   *)
C11_AsStated ==
    /\ ~panicked
    /\ (damps = 0 /\ ExpectedScore > MaxU32) => engine.score = MaxU32
    /\ \A s \in DetectionSource :
          SumOfCalls(calls, {s}) > MaxU32
              => get_source_weight(engine, s) = MaxU32

---------------------------------------------------------------------------
(* A finished run of main under tracer 12345 in which every probe measured *)
(* nominal values: no detector saw an anomaly, PTRACE_TRACEME returned 0,  *)
(* the trap-flag detector reported nothing, the damping factor is 1.0      *)

TracedNominalRun ==
    /\ pc = "done"
    /\ TracerPid = <<12345>>
    /\ anomalies = {}
    /\ \A i \in 1..Len(calls) : calls[i].source # "TrapFlag"
    /\ env_state.adjustment_factor = One

---------------------------------------------------------------------------
(* C13 as stated: whenever compat mode is enabled the fault-probe arm of   *)
(* the hardware-breakpoint detector neither installs its SIGSEGV handler   *)
(* nor executes the DR7 probe, for every value of tracer_pid.              *)
C13_AsStated ==
    (op.name = "hardware_bp" /\ GDB_COMPAT_MODE)
        => (~op.installed /\ ~op.probed)

---------------------------------------------------------------------------
(* the last step was a call of get_tracer_pid / invalidate_tracer_cache *)
GotTracerPid == nops' = nops + 1 /\ op'.name = "get_tracer_pid"

InvalidatedTracerCache ==
    nops' = nops + 1 /\ op'.name = "invalidate_tracer_cache"

(* C14: once get_tracer_pid has read /proc/self/status, every later call   *)
(* returns the cached value without reading again, however TracerPid       *)
(* changes, until invalidate_tracer_cache; the first call after an         *)
(* invalidation (and the very first) reads the file and caches the value.  *)
C14_TracerPidCached ==
    [][/\ (GotTracerPid /\ TRACER_CHECKED) =>
             /\ op'.pid = CACHED_TRACER_PID
             /\ proc_reads' = proc_reads
             /\ CACHED_TRACER_PID' = CACHED_TRACER_PID
             /\ TRACER_CHECKED'
       /\ (GotTracerPid /\ ~TRACER_CHECKED) =>
             /\ op'.pid = (IF TracerPid = <<>> THEN 0 ELSE TracerPid[1])
             /\ proc_reads' = proc_reads + 1
             /\ CACHED_TRACER_PID' = op'.pid
             /\ TRACER_CHECKED'
       /\ InvalidatedTracerCache =>
             /\ ~TRACER_CHECKED'
             /\ proc_reads' = proc_reads
       /\ TracerPid' # TracerPid =>
             UNCHANGED <<TRACER_CHECKED, CACHED_TRACER_PID, proc_reads>>
      ]_vars

(* a stale value was returned: the tracer attached after the first read *)
C14_Witness ==
    /\ op.name = "get_tracer_pid"
    /\ nops = 2 /\ proc_reads = 1
    /\ TRACER_CHECKED
    /\ op.pid = 0
    /\ TracerPid = <<12345>>

---------------------------------------------------------------------------
(* The order C15 gives: init, environment, the detectors that are not the  *)
(* ptrace ones (one group), the TracerPid scan, PTRACE_TRACEME, analysis,  *)
(* adjustment, decide; what follows decide comes last.                     *)

NonPtraceDetectors ==
    {"timing", "int3", "trap_flag", "hardware_bp", "jitter", "record_replay",
     "ebpf_compare"}

ClaimedRank(phase) ==
    CASE phase = "signal_compat_init" -> 1
      [] phase = "environment_detect" -> 2
      [] phase \in NonPtraceDetectors -> 3
      [] phase = "tracer_pid" -> 4
      [] phase = "ptrace" -> 5
      [] phase = "analyze_contradictions" -> 6
      [] phase = "apply_environmental_adjustment" -> 7
      [] phase = "decide" -> 8
      [] OTHER -> 9

Executed(phase) == \E i \in 1..Len(trace) : trace[i] = phase

(* C15: in every run of main the phases occur in this order, each once:    *)
(* signal-compat init, environment snapshot, all non-ptrace detectors, the *)
(* TracerPid scan, PTRACE_TRACEME, analyze_contradictions, the adjustment  *)
(* exactly once, decide; evidence is reported by detector steps only, so   *)
(* none after analyze_contradictions, and no detector runs after           *)
(* PTRACE_TRACEME.                                                         *)
C15_PhaseOrder ==
    /\ [](/\ \A i, j \in 1..Len(trace) :
               i < j => /\ trace[i] # trace[j]
                        /\ ClaimedRank(trace[i]) <= ClaimedRank(trace[j])
          /\ \A i \in 1..Len(trace) :
               ClaimedRank(trace[i]) > 1 =>
                   \A r \in 1..(ClaimedRank(trace[i]) - 1) :
                       \E j \in 1..(i - 1) : ClaimedRank(trace[j]) = r
          /\ Executed("tracer_pid") =>
               \A d \in NonPtraceDetectors : Executed(d)
          /\ Executed("decide") =>
               /\ damps <= 1
               /\ Cardinality({i \in 1..Len(trace) :
                     trace[i] = "apply_environmental_adjustment"}) = 1)
    /\ [][/\ engine'.history # engine.history =>
                /\ IsDetector(pc)
                /\ ~Executed("analyze_contradictions")
          /\ (pc # "off" /\ IsDetector(pc') /\ pc' # pc) =>
                ~Executed("ptrace") /\ pc # "ptrace"
         ]_vars

C15_Witness ==
    /\ pc = "done"
    /\ Len(trace) = 15
    /\ trace[10] = "tracer_pid" /\ trace[11] = "ptrace"
    /\ trace[12] = "analyze_contradictions"
    /\ Len(engine.history) = 3
    /\ Len(engine.contradictions) = 1
    /\ damps = 1

---------------------------------------------------------------------------
(* C16 as stated: every detector that installs a signal handler leaves, on *)
(* every exit path, the disposition that was installed for the signal      *)
(* before the detector ran: SIGSEGV after the fault probe, SIGUSR1 and     *)
(* SIGUSR2 after the signal-determinism test.                              *)
C16_AsStated ==
    [][(pc # "off" /\ IsDetector(pc)) => sigactions' = sigactions]_vars

---------------------------------------------------------------------------
(* C17: Clean and Suspicious return from the dispatcher, the payload runs  *)
(* and the process exits 0; Instrumented exits with 0xC0DE and Deceptive   *)
(* with 0xDEAD, in both cases without running the payload; nothing of this *)
(* happens before the dispatcher is called.                                *)
C17_ResponseByVerdict ==
    /\ (pc = "done" /\ verdict \in {"Clean", "Suspicious"})
          => (payload_ran /\ exit_code = 0)
    /\ (pc = "done" /\ verdict = "Instrumented")
          => (~payload_ran /\ exit_code = 49374)
    /\ (pc = "done" /\ verdict = "Deceptive")
          => (~payload_ran /\ exit_code = 57005)
    /\ pc = "done" => verdict = decide(engine)
    /\ pc # "done" => (~payload_ran /\ exit_code = 0 - 1)

C17_Witness ==
    /\ pc = "done"
    /\ verdict = "Suspicious"
    /\ engine.score >= SuspiciousThreshold
    /\ payload_ran
    /\ exit_code = 0

---------------------------------------------------------------------------
(* The damping C18 gives for a governor and for an SMT state, in           *)
(* hundredths                                                              *)

GovernorDamping(governor) ==
    CASE governor = "performance" -> 100
      [] governor \in {"schedutil", "ondemand", "conservative"} -> 70
      [] governor = "powersave" -> 50
      [] governor = "None" -> 100
      [] OTHER -> 90

SmtDamping(smt) == IF smt = "true" THEN 90 ELSE 100

(* C18: adjustment_factor is governor damping times SMT damping with the   *)
(* values above, hence in (0, 1] for every combination; powersave with SMT *)
(* gives 0.45, which damps a raw score of 100 to 45.                       *)
C18_AdjustmentFactor ==
    /\ env_state.adjustment_factor * 100 =
          GovernorDamping(env_state.cpu_governor)
              * SmtDamping(env_state.smt_active)
    /\ env_state.adjustment_factor > 0
    /\ env_state.adjustment_factor <= One
    /\ (env_state.cpu_governor = "powersave"
           /\ env_state.smt_active = "true")
          => /\ env_state.adjustment_factor = 45
             /\ (Adjusted /\ pre.score = 100) => engine.score = 45

C18_Witness ==
    /\ Adjusted
    /\ env_state.cpu_governor = "powersave"
    /\ env_state.smt_active = "true"
    /\ pre.score = 100
    /\ engine.score = 45
    /\ decide(engine) = "Suspicious"

---------------------------------------------------------------------------
(* C19: for an empty sample vector TimingStats::from_samples and           *)
(* JitterStats::from_samples return statistics that are all zero (count,   *)
(* mean, variance, stddev, min, max, percentiles, cv) with bimodal false;  *)
(* no result holds a quotient with a zero denominator; and cv is zero      *)
(* whenever the mean is zero.                                              *)
EmptyTimingStats ==
    [of |-> "TimingStats", mean |-> Zero, variance |-> Zero, min |-> 0,
     max |-> 0, samples |-> 0, cv |-> Zero]

EmptyJitterStats ==
    [of |-> "JitterStats", sorted |-> <<>>, samples |-> 0, mean |-> Zero,
     variance |-> Zero, stddev |-> Zero, min |-> 0, max |-> 0, p50 |-> 0,
     p95 |-> 0, p99 |-> 0, cv |-> Zero, bimodal |-> FALSE]

C19_EmptyAndZeroMean ==
    /\ stats.of = "TimingStats" =>
          /\ op.samples = <<>> => stats = EmptyTimingStats
          /\ \A f \in {"mean", "variance", "cv"} : Denominator(stats[f]) # 0
          /\ IsZero(stats.mean) => IsZero(stats.cv)
    /\ stats.of = "JitterStats" =>
          /\ op.samples = <<>> => stats = EmptyJitterStats
          /\ \A f \in {"mean", "variance", "stddev", "cv"} :
                 Denominator(stats[f]) # 0
          /\ IsZero(stats.mean) => IsZero(stats.cv)

(* JitterStats::from_samples, which indexes the sorted vector for its      *)
(* percentiles, has been applied to an empty vector                        *)
C19_Witness ==
    /\ stats.of = "JitterStats"
    /\ op.samples = <<>>
    /\ stats = EmptyJitterStats

(* the zero-mean case of a vector that is not empty *)
C19_ZeroMeanReached ==
    /\ stats.of = "TimingStats"
    /\ op.samples = <<0, 0>>
    /\ IsZero(stats.mean) /\ IsZero(stats.cv)
    /\ stats.samples = 2

---------------------------------------------------------------------------
(* C20: for every scanned region with total > 0 bytes equal to 0xCC the    *)
(* INT3 detector reports exactly one Int3 evidence, with (weight,          *)
(* confidence) (1, 0.1) if total > 1000 and is_alignment, else (2, 0.3)    *)
(* if is_alignment and total > 100, else (5, 0.5) if total > 20, else      *)
(* (25, 0.8), where is_alignment = largest_run >= 16 or (clusters > 0 and  *)
(* total > 100); the effective contributions are 0, 0, 2 and 20; a region  *)
(* of 5000 such bytes with largest run 64 contributes 0, verdict Clean.    *)

(* The runs of 0xCC bytes of a region, as <<length, how many, where>>,     *)
(* read off the groups: a group with gap = 0 joins the run that follows it *)
RECURSIVE RunsOf(_, _)
RunsOf(r, carried) ==
    IF r = <<>> THEN (IF carried > 0 THEN {<<carried, 1, 0, "last">>} ELSE {})
    ELSE LET g == Head(r)
             n == Len(r)
         IN  IF g.gap = 0
             THEN RunsOf(Tail(r), carried + g.cc * g.times)
             ELSE (IF carried + g.cc > 0
                   THEN {<<carried + g.cc, 1, n, "first">>} ELSE {})
                  \cup (IF g.times > 1 /\ g.cc > 0
                        THEN {<<g.cc, g.times - 1, n, "rest">>} ELSE {})
                  \cup RunsOf(Tail(r), 0)

(* the sum of length * count over a set of runs *)
RECURSIVE BytesIn(_)
BytesIn(S) ==
    IF S = {} THEN 0
    ELSE LET x == CHOOSE y \in S : TRUE IN x[1] * x[2] + BytesIn(S \ {x})

RECURSIVE CountIn(_)
CountIn(S) ==
    IF S = {} THEN 0
    ELSE LET x == CHOOSE y \in S : TRUE IN x[2] + CountIn(S \ {x})

Total == BytesIn(RunsOf(region, 0))

LargestRun ==
    IF RunsOf(region, 0) = {} THEN 0
    ELSE CHOOSE l \in {x[1] : x \in RunsOf(region, 0)} :
             \A x \in RunsOf(region, 0) : x[1] <= l

Clusters == CountIn({x \in RunsOf(region, 0) : x[1] >= 4})

IsAlignment == LargestRun >= 16 \/ (Clusters > 0 /\ Total > 100)

ClaimedInt3Call ==
    IF Total > 1000 /\ IsAlignment THEN Call("Int3", 1, 10)
    ELSE IF IsAlignment /\ Total > 100 THEN Call("Int3", 2, 30)
    ELSE IF Total > 20 THEN Call("Int3", 5, 50)
    ELSE Call("Int3", 25, 80)

ClaimedInt3Effective ==
    CASE ClaimedInt3Call.weight = 1 -> 0
      [] ClaimedInt3Call.weight = 2 -> 0
      [] ClaimedInt3Call.weight = 5 -> 2
      [] ClaimedInt3Call.weight = 25 -> 20

Int3Scanned == op.name \in {"check_int3_scanning", "decide"}

---------------------------------------------------------------------------
(* C21 as stated: every scanned region that shows the alignment pattern (a *)
(* run of 16 or more consecutive 0xCC bytes) is reported with weight 0 or  *)
(* 1, never with the breakpoint weight; only regions with few scattered    *)
(* bytes (fewer than 20, no large cluster) are reported with a weight in   *)
(* 20..30.                                                                 *)
C21_AsStated ==
    (Int3Scanned /\ calls # <<>>) =>
        /\ LargestRun >= 16 => calls[1].weight \in {0, 1}
        /\ calls[1].weight \in 20..30 => (Total < 20 /\ LargestRun < 16)

---------------------------------------------------------------------------
(* C24: in the fault probe, if tracer_pid > 0 no handler is installed, the *)
(* probe is not executed and HardwareBreakpoint (20, 0.7) is reported;     *)
(* otherwise the statements occur in the order install the SIGSEGV         *)
(* handler, clear the faulted flag, execute the DR7 probe, restore the     *)
(* prior handler, read the flag, and weight 30 is reported if and only if  *)
(* the handler did not run during the probe; if the handler cannot be      *)
(* installed the probe is not executed.                                    *)
FullProbe == <<"install", "clear", "probe", "restore", "read">>

IsPrefix(s, t) == Len(s) <= Len(t) /\ s = SubSeq(t, 1, Len(s))

ProbeReports == SubSeq(calls, op.entry + 1, Len(calls))

InProbe == dpc \notin {"off", "start"}

C24_FaultProbeOrder ==
    InProbe =>
        /\ op.tracer_pid > 0 =>
              /\ IsPrefix(trace, <<"report_skip">>)
              /\ dpc = "done" =>
                    ProbeReports = <<Call("HardwareBreakpoint", 20, 70)>>
        /\ op.tracer_pid = 0 =>
              /\ IsPrefix(trace, FullProbe) \/ trace = <<"install_failed">>
              /\ trace = <<"install_failed">> => ProbeReports = <<>>
              /\ (dpc = "done" /\ trace = FullProbe) =>
                    /\ ~op.handler_ran =>
                          ProbeReports = <<Call("HardwareBreakpoint", 30, One)>>
                    /\ op.handler_ran => ProbeReports = <<>>
                    /\ sigactions["SIGSEGV"] = op.old_sa
              /\ dpc # "done" => ProbeReports = <<>>
        /\ (sigactions["SIGSEGV"] = "sigsegv_handler") <=>
               (dpc \in {"clear", "probe", "restore"})

(* without a tracer the probe ran through all its statements, the access   *)
(* was masked (no fault, the handler did not run) and weight 30 was        *)
(* reported                                                                *)
C24_Witness ==
    /\ dpc = "done"
    /\ trace = FullProbe
    /\ op.tracer_pid = 0
    /\ ~op.handler_ran
    /\ op.entry = 0
    /\ calls = <<Call("HardwareBreakpoint", 30, One)>>
    /\ proc_reads = 1

---------------------------------------------------------------------------
(* C25 as stated: for every vector of 10 cycle samples the timing          *)
(* sub-method reports weight 50 if mean > 50,000, otherwise weight 20 if   *)
(* mean > 10,000, and in addition weight 15 exactly when max > 10 x min.   *)
TimingChecked == op.name = "check_via_timing"

(* mean > m, for the mean of the samples *)
MeanOver(m) == SumOf(samples) > m * Len(samples)

WeightsReported == {calls[i].weight : i \in 1..Len(calls)}

MeanReportAsClaimed ==
    /\ \A i \in 1..Len(calls) :
           /\ calls[i].source = "HardwareBreakpoint"
           /\ calls[i].confidence = One
    /\ 50 \in WeightsReported <=> MeanOver(50000)
    /\ 20 \in WeightsReported <=> (MeanOver(10000) /\ ~MeanOver(50000))
    /\ WeightsReported \subseteq {50, 20, 15}
    /\ Len(calls) = Cardinality(WeightsReported)
    /\ \A i \in 1..(Len(calls) - 1) : calls[i].weight # 15

---------------------------------------------------------------------------
(* C27 as stated: after the ptrace detector's PTRACE_TRACEME attempt has   *)
(* succeeded the tracer cache is invalidated, so that a later              *)
(* get_tracer_pid reads /proc/self/status again instead of returning the   *)
(* value cached at initialization.                                         *)
TracemeSucceeded ==
    \E i \in 1..Len(trace) : trace[i] = "ptrace" /\ "ptrace" \notin anomalies

C27_AsStated ==
    (pc # "off" /\ TracemeSucceeded) =>
        /\ ~TRACER_CHECKED
        /\ get_tracer_pid(TRACER_CHECKED, CACHED_TRACER_PID, TracerPid).pid
               = read_tracer_pid_from_proc(TracerPid)

---------------------------------------------------------------------------
(* C28 as stated: in every detector that computes a TSC delta (statistical *)
(* timing, hardware-breakpoint data access, TSC against wall clock, eBPF   *)
(* observer comparison), when the later reading is smaller than the        *)
(* earlier one the delta is taken as 0, never an underflow, a wrapped      *)
(* value or an abort.                                                      *)
C28_AsStated ==
    (stats.of = "delta" /\ samples[2] < samples[1]) =>
        /\ ~panicked
        /\ stats.delta = 0

---------------------------------------------------------------------------
(* C29: the engine is changed only by report, record_contradiction,        *)
(* analyze_contradictions and apply_environmental_adjustment; decide,      *)
(* get_score, summary, get_history and get_contradictions leave score,     *)
(* evidence log, contradiction log and per-source totals unchanged; the    *)
(* two logs are append-only; apply_environmental_adjustment changes        *)
(* nothing but the score.                                                  *)
Readers ==
    {"decide", "get_score", "summary", "get_history", "get_contradictions"}

Mutators ==
    {"report", "record_contradiction", "analyze_contradictions",
     "apply_environmental_adjustment"}

C29_EngineFrame ==
    [][/\ op'.name \in Readers => engine' = engine
       /\ engine' # engine => op'.name \in Mutators
       /\ IsPrefix(engine.history, engine'.history)
       /\ IsPrefix(engine.contradictions, engine'.contradictions)
       /\ op'.name = "apply_environmental_adjustment" =>
              engine' = [engine EXCEPT !.score = engine'.score]]_vars

(* get_history has been called on an engine that holds evidence and a      *)
(* contradiction, after a damping                                          *)
C29_Witness ==
    /\ op.name = "get_history"
    /\ op.result = engine.history
    /\ Len(engine.history) >= 1
    /\ Len(engine.contradictions) >= 1
    /\ damps >= 1
    /\ engine.score > 0

---------------------------------------------------------------------------
(* C30: for every non-empty sample vector of length n,                     *)
(* JitterStats::from_samples takes the percentiles at the indices n/2,     *)
(* floor(0.95 n) and floor(0.99 n) of the sorted vector, all below n, so   *)
(* that min <= p50 <= p95 <= p99 <= max; and bimodal is true exactly when  *)
(* p95 > 5 x p50 and p95 > 1000.                                           *)
C30_Percentiles ==
    stats.of = "percentiles" =>
        LET n == Len(op.samples)
            p == stats.p
        IN  /\ Len(samples) = n
            /\ \A i \in 1..(n - 1) : samples[i] <= samples[i + 1]
            /\ p.i50 = n \div 2
            /\ 100 * p.i95 <= 95 * n /\ 95 * n < 100 * (p.i95 + 1)
            /\ 100 * p.i99 <= 99 * n /\ 99 * n < 100 * (p.i99 + 1)
            /\ p.i50 < n /\ p.i95 < n /\ p.i99 < n
            /\ p.p50 = samples[p.i50 + 1]
            /\ p.p95 = samples[p.i95 + 1]
            /\ p.p99 = samples[p.i99 + 1]
            /\ p.min = MinOf(op.samples)
            /\ p.max = MaxOf(op.samples)
            /\ p.min <= p.p50 /\ p.p50 <= p.p95
            /\ p.p95 <= p.p99 /\ p.p99 <= p.max
            /\ p.bimodal <=> (p.p95 > 5 * p.p50 /\ p.p95 > 1000)

(* a vector of 25 samples given in descending order, whose three           *)
(* percentiles differ: indices 12, 23 and 24, bimodal                      *)
C30_Witness ==
    /\ stats.of = "percentiles"
    /\ Len(op.samples) = 25
    /\ op.samples[1] > op.samples[25]
    /\ stats.p.i50 = 12 /\ stats.p.i95 = 23 /\ stats.p.i99 = 24
    /\ stats.p.p50 = 1 /\ stats.p.p95 = 1000 /\ stats.p.p99 = 1001
    /\ ~stats.p.bimodal

---------------------------------------------------------------------------
(* C22: for every byte sequence analyze_int3_pattern returns total = the   *)
(* number of bytes equal to 0xCC, largest_cluster = the length of the      *)
(* longest maximal run of consecutive 0xCC bytes, and counts as clusters   *)
(* exactly the maximal runs of length >= 4, including a run that ends at   *)
(* the last byte; hence largest_cluster <= total and 4 x clusters <=       *)
(* total, and an empty range gives (0, 0, false).                          *)

(* the maximal runs of 0xCC in the region, as <<first, last>> positions *)
MaximalRuns ==
    {r \in (1..Len(region)) \X (1..Len(region)) :
        /\ r[1] <= r[2]
        /\ \A i \in r[1]..r[2] : region[i] = INT3
        /\ r[1] = 1 \/ region[r[1] - 1] # INT3
        /\ r[2] = Len(region) \/ region[r[2] + 1] # INT3}

RunLength(r) == r[2] - r[1] + 1

C22_PatternCounts ==
    stats.of = "analyze_int3_pattern" =>
        LET a == stats.r
        IN  /\ a.total = Cardinality({i \in 1..Len(region) : region[i] = INT3})
            /\ \A r \in MaximalRuns : RunLength(r) <= a.largest_cluster
            /\ \/ a.largest_cluster = 0 /\ MaximalRuns = {}
               \/ \E r \in MaximalRuns : RunLength(r) = a.largest_cluster
            /\ a.num_clusters =
                   Cardinality({r \in MaximalRuns : RunLength(r) >= 4})
            /\ a.largest_cluster <= a.total
            /\ 4 * a.num_clusters <= a.total
            /\ region = <<>> =>
                   /\ a.total = 0
                   /\ a.largest_cluster = 0
                   /\ ~a.is_alignment

(* two clusters, the second running to the last byte of the range *)
C22_Witness ==
    /\ stats.of = "analyze_int3_pattern"
    /\ region = <<INT3, INT3, INT3, INT3, NOP, INT3, INT3, INT3, INT3>>
    /\ stats.r.total = 8
    /\ stats.r.largest_cluster = 4
    /\ stats.r.num_clusters = 2

---------------------------------------------------------------------------
(* C23 as stated: the INT3 detector scans and reports only those lines of  *)
(* /proc/self/maps that are marked r-xp and whose path field equals the    *)
(* current executable's path; for every other mapped file no scan is made  *)
(* and no Int3 evidence is reported.                                       *)
OwnTextLines ==
    {i \in 1..Len(region) :
        region[i].perms = "r-xp" /\ region[i].path = current_exe}

C23_AsStated ==
    (op.name = "check_int3_scanning" /\ "scanned" \in DOMAIN op) =>
        /\ op.scanned = OwnTextLines
        /\ Len(calls) =
               Cardinality({i \in OwnTextLines : region[i].bytes # <<>>})

---------------------------------------------------------------------------
(* C26: in a trial of the signal-determinism test, once both handlers have *)
(* completed after the two stores (whether one after the other or one      *)
(* inside the other, between its counter increment and its accumulator     *)
(* update), SIGNAL_ORDER is 21 if usr1_handler incremented the counter     *)
(* first and 12 if usr2_handler did.                                       *)
StepsOf(sig) ==
    {i \in 1..Len(op.log) : op.log[i].sig = sig}

BothCompleted ==
    /\ op.name = "check_signal_determinism"
    /\ dpc \in {"kill_usr1", "kill_usr2", "sleep"}
    /\ handlers = <<>>
    /\ Len(op.log) = 5
    /\ op.log[1].step = "store"
    /\ \A sig \in {"SIGUSR1", "SIGUSR2"} : Cardinality(StepsOf(sig)) = 2

C26_OrderObservable ==
    BothCompleted =>
        SIGNAL_ORDER = (IF op.log[2].sig = "SIGUSR1" THEN 21 ELSE 12)

(* usr2_handler has interrupted usr1_handler between its two steps and     *)
(* both have completed                                                     *)
C26_Witness ==
    /\ BothCompleted
    /\ op.log[2] = [sig |-> "SIGUSR1", step |-> "count"]
    /\ op.log[3] = [sig |-> "SIGUSR2", step |-> "count"]
    /\ op.log[5] = [sig |-> "SIGUSR1", step |-> "order"]
    /\ SIGNAL_ORDER = 21

====
